---- MODULE Spec2Model ----
(***************************************************************************)
(* Reconciliation engine of the RAG pipeline operator: one DocumentSet     *)
(* (Pipeline Resource), the EmbeddingJobs (Embed Tasks) and IndexJobs      *)
(* (Index Tasks) created for it, and the Kubernetes Jobs (workloads) the   *)
(* tasks launch.  Every Reconcile call is one atomic step; the outcome of  *)
(* each cluster-API call it makes (success, conflict/transport error) is   *)
(* chosen nondeterministically.  A name "<ds>-embedding-<ts>" or           *)
(* "<ds>-index-<ts>" is represented by its timestamp <ts> (one-second      *)
(* resolution, as time.Now().Format("20060102150405") gives), a workload   *)
(* name "<task>-job" by the pair <<kind, ts>>, and a collection name       *)
(* "<base>_<ts>" by the pair <<base, ts>>.                                 *)
(***************************************************************************)
EXTENDS Integers, Sequences, FiniteSets, TLC

VARIABLES ds, ejobs, ijobs, wl, now, faults

vars == <<ds, ejobs, ijobs, wl, now, faults>>

(* ---------------------------------------------------------------- bounds *)

\* Number of clock advances (one-second ticks and long waits) in a behaviour.
MaxTicks == 1

\* Highest metadata.generation the user's spec edits reach.
MaxGeneration == 2

\* Number of adverse events in a behaviour: a cluster-API call whose failure
\* changes what the reconcile leaves behind, a child task or workload removed
\* from outside, a workload pod that fails.
MaxFaults == 1

\* The same for a behaviour of a single task, where the default retry policy
\* needs four failed workloads to be used up.
MaxTaskFaults == 4

\* Largest number of chunks, and of vectors, a worker reports as its total.
MaxChunks == 1

(* ------------------------------------------------------ program constants *)

\* RetryPolicy.MaxRetries the Pipeline Reconciler gives every child task.
ChildMaxRetries == 3

\* maxRetries := 3 when a task has no retryPolicy.
DefaultMaxRetries == 3

\* handleFailedPhase: elapsed > 5*time.Minute, in seconds.
AutoRetrySeconds == 300

\* ShouldSync: interval = 5 * time.Minute when policy.Interval does not parse.
DefaultSyncInterval == 300

\* The error of time.ParseDuration.
BadInterval == -1

\* GetSyncInterval: minimum 1 minute interval, in seconds.
MinSyncInterval == 60

\* A duration string is the pair of its number and its unit, "" is <<>>.
\* time.ParseDuration in seconds: a string without number or without a known
\* unit is rejected.
ParseDuration(str) ==
  IF Len(str) # 2 THEN BadInterval
  ELSE CASE str[2] = "s" -> str[1]
         [] str[2] = "m" -> str[1] * 60
         [] str[2] = "h" -> str[1] * 3600
         [] OTHER -> BadInterval

\* ds.Spec.SyncPolicy == nil.
NoSyncPolicy ==
  [ present |-> FALSE, pauseSync |-> FALSE, mode |-> "", interval |-> <<>> ]

\* syncPolicy {mode: auto, interval: "5m"}.
AutoSyncPolicy ==
  [ present |-> TRUE, pauseSync |-> FALSE, mode |-> "auto",
    interval |-> <<5, "m">> ]

\* ds.Spec.Index.Collection, the base collection name.
BaseCollection == "kb"

\* Values of ds.Spec.Index.Alias: none, or one alias name.
Aliases == {"", "kb-active"}

NoRef == -1            \* the empty string as a task reference
NoTime == -1           \* a nil *metav1.Time
NoPolicy == -1         \* a nil *RetryPolicy
NoCollection == <<>>   \* the empty string as a collection name
NoHash == ""           \* the empty string as a source digest
NoReason == ""         \* a status update that sets no condition

EmbeddingJobTerminal == {"Succeeded", "Failed"}
IndexJobTerminal == {"Succeeded", "Failed"}

(* ---------------------------------------------------------------- helpers *)

\* The clock value after s one-second ticks and b long waits is
\* s + b * (AutoRetrySeconds + 1); TicksUsed recovers s + b.
TicksUsed(t) == (t \div (AutoRetrySeconds + 1)) + (t % (AutoRetrySeconds + 1))

\* fmt.Sprintf("%s_%s", ds.Spec.Index.Collection, timestamp)
CollectionName(ts) == <<BaseCollection, ts>>

Remove(f, k) == [x \in (DOMAIN f) \ {k} |-> f[x]]

Put(f, k, v) == [x \in (DOMAIN f) \cup {k} |-> IF x = k THEN v ELSE f[x]]

\* meta.SetStatusCondition on a map from condition type to status.
SetStatusCondition(conds, type, status) == Put(conds, type, status)

IsConditionTrue(conds, type) == type \in DOMAIN conds /\ conds[type] = "True"

(* ------------------------------------------------- child objects, as built *)

\* The EmbeddingJob handlePendingPhase builds.  createdGen is a history field:
\* the Pipeline generation whose spec the task was built from.
NewEmbeddingJob(collection) ==
  [ finalizer |-> FALSE, deleting |-> FALSE,
    collection |-> collection, maxRetries |-> ChildMaxRetries,
    phase |-> "", message |-> "", jobRef |-> "", retryCount |-> 0,
    conditions |-> <<>>,
    \* Status.Progress.TotalChunks
    totalChunks |-> 0,
    createdGen |-> ds.generation, failSeen |-> 0, wlFailed |-> 0,
    \* history: a reconcile of the task has ended in a nil-pointer panic
    panicked |-> FALSE,
    \* controllerutil.SetControllerReference(ds, job, r.Scheme)
    ownerRef |-> TRUE ]

\* The IndexJob createIndexJob builds.
NewIndexJob(collection, targetAlias) ==
  [ finalizer |-> FALSE, deleting |-> FALSE,
    collection |-> collection, targetAlias |-> targetAlias,
    maxRetries |-> ChildMaxRetries,
    phase |-> "", message |-> "", jobRef |-> "", retryCount |-> 0,
    conditions |-> <<>>, aliasSwapped |-> FALSE,
    \* the alias and the collection in the message of condition AliasSwapped
    swapMessage |-> <<>>,
    \* Status.Progress.TotalVectors
    totalVectors |-> 0,
    createdGen |-> ds.generation, failSeen |-> 0, wlFailed |-> 0,
    \* history: built by handleIndexingPhase, which had found its Index Task
    \* missing
    recreated |-> ds.phase = "Indexing",
    \* history: a reconcile of the task has ended in a nil-pointer panic
    panicked |-> FALSE,
    \* controllerutil.SetControllerReference(ds, job, r.Scheme)
    ownerRef |-> TRUE ]

\* ds.Name
DocumentSetName == "docs"

\* fmt.Sprintf("%s-embedding-%s", ds.Name, timestamp)
EmbeddingJobName(n) == <<DocumentSetName, "embedding", n>>

\* fmt.Sprintf("%s-index-%s", ds.Name, timestamp)
IndexJobName(n) == <<DocumentSetName, "index", n>>

\* The batch Job a task creates: no pod has finished yet.  seen is a history
\* field: a reconcile has stored its decision on this workload's failure.
NewWorkload(args) ==
  [ succeeded |-> 0, failed |-> 0, seen |-> FALSE,
    \* Args of the worker container
    args |-> args,
    \* controllerutil.SetControllerReference(job, k8sJob, r.Scheme)
    ownerRef |-> TRUE ]

(* ---------------------------------------------------- Pipeline Reconciler *)

\* An adverse event draws on the fault budget; faults is what is left of it.
CountFault(ok) ==
  /\ ok \/ faults > 0
  /\ faults' = IF ok THEN faults ELSE faults - 1

\* r.Status().Update on the DocumentSet: the new status is stored when the call
\* succeeds; on a conflict or transport error the stored status stays.
DocumentSetStatusUpdate(new, ok) == ds' = IF ok THEN new ELSE ds

\* Variant: the generation recorded is one ahead of the object's.
DocumentSetReconciler_initializeStatus_ahead ==
  \E ok \in BOOLEAN :
    /\ DocumentSetStatusUpdate(
         [ds EXCEPT !.phase = "Pending",
                    !.message = <<"DocumentSet created, waiting for processing">>,
                    !.observedGeneration = ds.generation + 1,
                    !.lastUpdateTime = now,
                    !.lastReason = NoReason], ok)
    /\ UNCHANGED <<ejobs, ijobs, wl, now, faults>>

DocumentSetReconciler_initializeStatus ==
  \E ok \in BOOLEAN :
    /\ DocumentSetStatusUpdate(
         [ds EXCEPT !.phase = "Pending",
                    !.message = <<"DocumentSet created, waiting for processing">>,
                    !.observedGeneration = ds.generation,
                    !.lastUpdateTime = now,
                    !.lastReason = NoReason], ok)
    /\ UNCHANGED <<ejobs, ijobs, wl, now, faults>>

\* Variant: the failure is logged and the status is never written.
DocumentSetReconciler_updateStatusFailed_dropped(message, caused) ==
  UNCHANGED vars

\* caused: a failed cluster-API call brought the reconciler here.
DocumentSetReconciler_updateStatusFailed(message, caused) ==
  \E ok \in BOOLEAN :
    /\ DocumentSetStatusUpdate(
         [ds EXCEPT !.phase = "Failed",
                    !.message = message,
                    !.lastUpdateTime = now,
                    !.lastReason = NoReason], ok)
    /\ CountFault(~(caused /\ ok))
    /\ UNCHANGED <<ejobs, ijobs, wl, now>>

DocumentSetReconciler_handlePendingPhase ==
  LET timestamp == now
      collectionName == CollectionName(timestamp)
      name == timestamp
  IN \/ \* r.Create fails with an error other than AlreadyExists
        DocumentSetReconciler_updateStatusFailed(<<"Failed to create EmbeddingJob">>, TRUE)
     \/ \E ok \in BOOLEAN :
          /\ ejobs' = IF name \in DOMAIN ejobs
                        THEN ejobs   \* AlreadyExists is tolerated
                        ELSE Put(ejobs, name, NewEmbeddingJob(collectionName))
          /\ DocumentSetStatusUpdate(
               [ds EXCEPT !.phase = "Embedding",
                          !.message = <<"EmbeddingJob created, processing documents">>,
                          !.lastEmbeddingJobRef = name,
                          !.currentCollection = collectionName,
                          !.lastUpdateTime = now,
                          !.conditions = SetStatusCondition(@, "ChunkingCompleted", "False"),
                          !.lastReason = "EmbeddingJobCreated",
                          \* the new cycle processes the source as it is now
                          !.sourceChanged = FALSE,
                          !.skippedSync = FALSE],
               ok)
          /\ CountFault(ok)
          /\ UNCHANGED <<ijobs, wl, now>>

DocumentSetReconciler_createIndexJob ==
  LET timestamp == now
      name == timestamp
  IN \/ \* r.Create fails with an error other than AlreadyExists
        DocumentSetReconciler_updateStatusFailed(<<"Failed to create IndexJob">>, TRUE)
     \/ \E ok \in BOOLEAN :
          /\ ijobs' = IF name \in DOMAIN ijobs
                        THEN ijobs   \* AlreadyExists is tolerated
                        ELSE Put(ijobs, name, NewIndexJob(ds.currentCollection, ds.alias))
          /\ DocumentSetStatusUpdate(
               [ds EXCEPT !.phase = "Indexing",
                          !.message = <<"IndexJob created, building vector index">>,
                          !.lastIndexJobRef = name,
                          !.lastUpdateTime = now,
                          !.conditions = SetStatusCondition(@, "EmbeddingCompleted", "True"),
                          !.lastReason = "EmbeddingJobSucceeded"],
               ok)
          /\ CountFault(ok)
          /\ UNCHANGED <<ejobs, wl, now>>

\* Variant: the Index Task is created as soon as the Embed Task is there.
DocumentSetReconciler_handleEmbeddingPhase_eager ==
  \/ /\ ds.lastEmbeddingJobRef \notin DOMAIN ejobs
     /\ DocumentSetReconciler_initializeStatus
  \/ /\ ds.lastEmbeddingJobRef \in DOMAIN ejobs
     /\ DocumentSetReconciler_createIndexJob

DocumentSetReconciler_handleEmbeddingPhase ==
  LET ref == ds.lastEmbeddingJobRef IN
  \/ \* r.Get fails with an error other than NotFound: the error is returned
     UNCHANGED vars
  \/ /\ ref \notin DOMAIN ejobs
     /\ DocumentSetReconciler_initializeStatus
  \/ /\ ref \in DOMAIN ejobs
     /\ ejobs[ref].phase = "Succeeded"
     /\ DocumentSetReconciler_createIndexJob
  \/ /\ ref \in DOMAIN ejobs
     /\ ejobs[ref].phase = "Failed"
     /\ DocumentSetReconciler_updateStatusFailed(<<"EmbeddingJob failed", ejobs[ref].message>>,
                                             FALSE)
  \/ /\ ref \in DOMAIN ejobs
     /\ ejobs[ref].phase = "Running"
     /\ \E ok \in BOOLEAN :
          DocumentSetStatusUpdate(
            [ds EXCEPT !.totalChunks = ejobs[ref].totalChunks,
                       !.message = <<"Embedding in progress">>,
                       !.lastUpdateTime = now,
                       !.lastReason = NoReason], ok)
     /\ UNCHANGED <<ejobs, ijobs, wl, now, faults>>
  \/ /\ ref \in DOMAIN ejobs
     /\ ejobs[ref].phase \notin {"Succeeded", "Failed", "Running"}
     /\ UNCHANGED vars

DocumentSetReconciler_updateStatusReady ==
  \E ok \in BOOLEAN :
    /\ DocumentSetStatusUpdate(
         [ds EXCEPT !.phase = "Ready",
                    !.message = <<"DocumentSet is ready for queries">>,
                    !.totalVectors = ijobs[ds.lastIndexJobRef].totalVectors,
                    !.lastUpdateTime = now,
                    !.observedGeneration = ds.generation,
                    !.conditions = SetStatusCondition(@, "IndexingCompleted", "True"),
                    !.lastReason = "IndexJobSucceeded"],
         ok)
    /\ UNCHANGED <<ejobs, ijobs, wl, now, faults>>

\* Variant: a missing Index Task is waited for, not created again.
DocumentSetReconciler_handleIndexingPhase_noRecreate ==
  LET ref == ds.lastIndexJobRef IN
  \/ /\ ref \notin DOMAIN ijobs
     /\ UNCHANGED vars
  \/ /\ ref \in DOMAIN ijobs
     /\ ijobs[ref].phase = "Succeeded"
     /\ DocumentSetReconciler_updateStatusReady
  \/ /\ ref \in DOMAIN ijobs
     /\ ijobs[ref].phase = "Failed"
     /\ DocumentSetReconciler_updateStatusFailed(<<"IndexJob failed", ijobs[ref].message>>,
                                             FALSE)
  \/ /\ ref \in DOMAIN ijobs
     /\ ijobs[ref].phase \notin {"Succeeded", "Failed"}
     /\ UNCHANGED vars

DocumentSetReconciler_handleIndexingPhase ==
  LET ref == ds.lastIndexJobRef IN
  \/ \* r.Get fails with an error other than NotFound: the error is returned
     UNCHANGED vars
  \/ /\ ref \notin DOMAIN ijobs
     /\ DocumentSetReconciler_createIndexJob
  \/ /\ ref \in DOMAIN ijobs
     /\ ijobs[ref].phase = "Succeeded"
     /\ DocumentSetReconciler_updateStatusReady
  \/ /\ ref \in DOMAIN ijobs
     /\ ijobs[ref].phase = "Failed"
     /\ DocumentSetReconciler_updateStatusFailed(<<"IndexJob failed", ijobs[ref].message>>,
                                             FALSE)
  \/ /\ ref \in DOMAIN ijobs
     /\ ijobs[ref].phase \in {"Building", "Optimizing"}
     /\ \E ok \in BOOLEAN :
          DocumentSetStatusUpdate(
            [ds EXCEPT !.totalVectors = ijobs[ref].totalVectors,
                       !.message = <<"Index building in progress">>,
                       !.lastUpdateTime = now,
                       !.lastReason = NoReason], ok)
     /\ UNCHANGED <<ejobs, ijobs, wl, now, faults>>
  \/ /\ ref \in DOMAIN ijobs
     /\ ijobs[ref].phase \notin {"Succeeded", "Failed", "Building", "Optimizing"}
     /\ UNCHANGED vars

\* Variant: a Ready Pipeline is reprocessed at every reconcile.
DocumentSetReconciler_handleReadyPhase_always ==
  DocumentSetReconciler_initializeStatus

\* Variant: a paused policy is treated like any other.
SourceWatcher_ShouldSync_unpaused(d, t) ==
  LET policy == d.syncPolicy
      parsed == ParseDuration(policy.interval)
      interval == IF parsed = BadInterval THEN DefaultSyncInterval ELSE parsed
      elapsed == t - d.lastSourceCheckTime
  IN IF ~policy.present THEN <<FALSE, <<"no sync policy configured">>>>
     ELSE IF policy.mode # "auto" THEN <<FALSE, <<"sync mode is not auto">>>>
     ELSE IF d.lastSourceCheckTime # NoTime /\ elapsed < interval
       THEN <<FALSE, <<"waiting for interval", interval - elapsed>>>>
     ELSE <<TRUE, <<"sync interval reached">>>>

\* SourceWatcher.ShouldSync at time t: whether a source check is due, and the
\* reason.
SourceWatcher_ShouldSync(d, t) ==
  LET policy == d.syncPolicy
      parsed == ParseDuration(policy.interval)
      interval == IF parsed = BadInterval THEN DefaultSyncInterval ELSE parsed
      elapsed == t - d.lastSourceCheckTime
  IN IF ~policy.present THEN <<FALSE, <<"no sync policy configured">>>>
     ELSE IF policy.pauseSync THEN <<FALSE, <<"sync is paused">>>>
     ELSE IF policy.mode # "auto" THEN <<FALSE, <<"sync mode is not auto">>>>
     ELSE IF d.lastSourceCheckTime # NoTime /\ elapsed < interval
       THEN <<FALSE, <<"waiting for interval", interval - elapsed>>>>
     ELSE <<TRUE, <<"sync interval reached">>>>

ShouldSync(d, t) == SourceWatcher_ShouldSync(d, t)[1]

GetSyncInterval(d) ==
  IF ~d.syncPolicy.present \/ d.syncPolicy.interval = <<>> THEN DefaultSyncInterval
  ELSE LET interval == ParseDuration(d.syncPolicy.interval)
       IN IF interval = BadInterval THEN DefaultSyncInterval
          ELSE IF interval < MinSyncInterval THEN MinSyncInterval
          ELSE interval

\* skippedSync is a history field: handleReadyPhase has returned "stay Ready"
\* at a moment when the source had changed and ShouldSync held.
DocumentSetReconciler_handleReadyPhase ==
  \/ /\ ds.generation # ds.observedGeneration
     /\ DocumentSetReconciler_initializeStatus
  \/ /\ ds.generation = ds.observedGeneration
     /\ ds' = [ds EXCEPT !.skippedSync = @ \/ (ds.sourceChanged /\ ShouldSync(ds, now))]
     /\ UNCHANGED <<ejobs, ijobs, wl, now, faults>>

\* Variant: the retry does not wait for the five minutes to pass.
AutoRetryDue_noWait ==
  ds.autoRetry /\ ds.lastUpdateTime # NoTime

\* Variant: the autoRetry flag is not consulted.
AutoRetryDue_noFlag ==
  /\ ds.lastUpdateTime # NoTime
  /\ now - ds.lastUpdateTime > AutoRetrySeconds

\* if ds.Spec.Embedding.AutoRetry && ds.Status.LastUpdateTime != nil
\*   { if time.Since(LastUpdateTime) > 5*time.Minute
AutoRetryDue ==
  /\ ds.autoRetry /\ ds.lastUpdateTime # NoTime
  /\ now - ds.lastUpdateTime > AutoRetrySeconds

DocumentSetReconciler_handleFailedPhase ==
  \/ /\ ds.generation # ds.observedGeneration
     /\ DocumentSetReconciler_initializeStatus
  \/ /\ ds.generation = ds.observedGeneration
     /\ AutoRetryDue
     /\ DocumentSetReconciler_initializeStatus
  \/ /\ ds.generation = ds.observedGeneration
     /\ ~AutoRetryDue
     /\ UNCHANGED vars

\* RemoveFinalizer and r.Update; with the deletion timestamp set and no
\* finalizer left the API server removes the object.
DocumentSetReconciler_handleDeletion ==
  \E ok \in BOOLEAN :
    /\ ds' = IF ok THEN [ds EXCEPT !.finalizer = FALSE, !.exists = FALSE] ELSE ds
    /\ UNCHANGED <<ejobs, ijobs, wl, now, faults>>

DocumentSetReconciler_addFinalizer ==
  \E ok \in BOOLEAN :
    /\ ds' = IF ok THEN [ds EXCEPT !.finalizer = TRUE] ELSE ds
    /\ UNCHANGED <<ejobs, ijobs, wl, now, faults>>

\* Variant: a Pending DocumentSet starts its cycle before its deletion
\* timestamp is looked at.
DocumentSetReconciler_Reconcile_deletionLast ==
  /\ ds.exists
  /\ IF ~ds.finalizer THEN DocumentSetReconciler_addFinalizer
     ELSE IF ds.phase = "Pending" THEN DocumentSetReconciler_handlePendingPhase
     ELSE IF ds.deleting THEN DocumentSetReconciler_handleDeletion
     ELSE IF ds.phase = "" THEN DocumentSetReconciler_initializeStatus
     ELSE CASE ds.phase = "Embedding" -> DocumentSetReconciler_handleEmbeddingPhase
            [] ds.phase = "Indexing" -> DocumentSetReconciler_handleIndexingPhase
            [] ds.phase = "Ready" -> DocumentSetReconciler_handleReadyPhase
            [] ds.phase = "Failed" -> DocumentSetReconciler_handleFailedPhase
            [] OTHER -> DocumentSetReconciler_initializeStatus

DocumentSetReconciler_Reconcile ==
  /\ ds.exists
  /\ IF ds.deleting THEN DocumentSetReconciler_handleDeletion
     ELSE IF ~ds.finalizer THEN DocumentSetReconciler_addFinalizer
     ELSE IF ds.phase = "" THEN DocumentSetReconciler_initializeStatus
     ELSE CASE ds.phase = "Pending" -> DocumentSetReconciler_handlePendingPhase
            [] ds.phase = "Embedding" -> DocumentSetReconciler_handleEmbeddingPhase
            [] ds.phase = "Indexing" -> DocumentSetReconciler_handleIndexingPhase
            [] ds.phase = "Ready" -> DocumentSetReconciler_handleReadyPhase
            [] ds.phase = "Failed" -> DocumentSetReconciler_handleFailedPhase
            [] OTHER -> DocumentSetReconciler_initializeStatus

(* -------------------------------------------------- Embed-Task Reconciler *)

\* Variant: every attempt of the task gets a workload name of its own.
EmbeddingJobKey_perAttempt(n) == <<"embedding", n, ejobs[n].retryCount>>

\* Name: embeddingJob.Name + "-job"
EmbeddingJobKey(n) == <<"embedding", n>>

\* r.Status().Update on an EmbeddingJob.
EmbeddingJobStatusUpdate(n, new, ok) ==
  ejobs' = IF ok THEN [ejobs EXCEPT ![n] = new] ELSE ejobs

EmbeddingJobReconciler_initializeStatus(n) ==
  \E ok \in BOOLEAN :
    /\ EmbeddingJobStatusUpdate(n,
         [ejobs[n] EXCEPT !.phase = "Pending",
                          !.message = "EmbeddingJob created, waiting to start"], ok)
    /\ UNCHANGED <<ds, ijobs, wl, now, faults>>

\* Variant: the message is stored, the phase is not.
EmbeddingJobReconciler_updateStatusFailed_samePhase(n, message, caused) ==
  /\ ejobs' = [ejobs EXCEPT ![n].message = message]
  /\ UNCHANGED <<ds, ijobs, wl, now, faults>>

\* caused: a failed cluster-API call brought the reconciler here.
EmbeddingJobReconciler_updateStatusFailed(n, message, caused) ==
  \E ok \in BOOLEAN :
    /\ EmbeddingJobStatusUpdate(n,
         [ejobs[n] EXCEPT !.phase = "Failed", !.message = message], ok)
    /\ CountFault(~(caused /\ ok))
    /\ UNCHANGED <<ds, ijobs, wl, now>>

\* Variant: the success of the workload is never recorded.
EmbeddingJobReconciler_updateStatusSucceeded_unrecorded(n) ==
  /\ n \in DOMAIN ejobs
  /\ UNCHANGED vars

EmbeddingJobReconciler_updateStatusSucceeded(n) ==
  \E ok \in BOOLEAN :
    /\ EmbeddingJobStatusUpdate(n,
         [ejobs[n] EXCEPT !.phase = "Succeeded",
                          !.message = "Embedding generation completed successfully",
                          !.conditions = SetStatusCondition(@, "VectorUpserted", "True")],
         ok)
    /\ UNCHANGED <<ds, ijobs, wl, now, faults>>

EmbeddingJobReconciler_handlePendingPhase(n) ==
  \/ \* r.Get of the DocumentSet returns NotFound
     /\ ~ds.exists
     /\ EmbeddingJobReconciler_updateStatusFailed(n, "Failed to get DocumentSet", FALSE)
  \/ \* r.Get of the DocumentSet fails with any other error
     /\ ds.exists
     /\ EmbeddingJobReconciler_updateStatusFailed(n, "Failed to get DocumentSet", TRUE)
  \/ \* r.Create of the Job fails with an error other than AlreadyExists
     /\ ds.exists
     /\ EmbeddingJobReconciler_updateStatusFailed(n, "Failed to create Job", TRUE)
  \/ /\ ds.exists
     /\ \E ok \in BOOLEAN :
          /\ wl' = IF EmbeddingJobKey(n) \in DOMAIN wl
                     THEN wl   \* AlreadyExists is tolerated
                     ELSE Put(wl, EmbeddingJobKey(n),
                              \* Args: []string{embeddingJob.Spec.DocumentSet}
                              NewWorkload(<<<<DocumentSetName>>>>))
          /\ EmbeddingJobStatusUpdate(n,
               [ejobs[n] EXCEPT !.phase = "Running",
                                !.message = "Kubernetes Job created, processing embeddings",
                                !.jobRef = "job",
                                !.conditions = SetStatusCondition(@, "JobStarted", "True")],
               ok)
          /\ CountFault(ok)
          /\ UNCHANGED <<ds, ijobs, now>>

\* maxRetries := 3; if RetryPolicy != nil { maxRetries = RetryPolicy.MaxRetries }
EffectiveMaxRetries(job) ==
  IF job.maxRetries = NoPolicy THEN DefaultMaxRetries ELSE job.maxRetries

\* Variant: the comparison is off by one, allowing one retry too many.
ShouldRetry_inclusive(job) == job.retryCount <= EffectiveMaxRetries(job)

\* Variant: the comparison is off by one, giving up one retry too early.
ShouldRetry_early(job) == job.retryCount + 1 < EffectiveMaxRetries(job)

\* if Status.RetryCount < maxRetries
ShouldRetry(job) == job.retryCount < EffectiveMaxRetries(job)

\* The failed > 0 branch of handleRunningPhase.  failSeen and wlFailed are
\* history fields: the reconciles that saw failed > 0 and stored their
\* decision, and the distinct failed workloads they saw.
EmbeddingJobReconciler_handleFailed(n) ==
  LET job == ejobs[n] IN
  IF ShouldRetry(job)
    THEN \E ok \in BOOLEAN, deleted \in BOOLEAN :
           /\ EmbeddingJobStatusUpdate(n,
                [job EXCEPT !.retryCount = @ + 1,
                            !.phase = "Pending",
                            !.message = "Retrying",
                            !.failSeen = @ + 1,
                            !.wlFailed = IF wl[EmbeddingJobKey(n)].seen THEN @ ELSE @ + 1,
                            \* RequeueAfter: Spec.RetryPolicy.BackoffSeconds is
                            \* read once the delete has gone through
                            !.panicked = @ \/ (deleted /\ job.maxRetries = NoPolicy)],
                ok)
           \* r.Delete runs only after the status update went through
           /\ wl' = IF ~ok THEN wl
                    ELSE IF deleted THEN Remove(wl, EmbeddingJobKey(n))
                    ELSE [wl EXCEPT ![EmbeddingJobKey(n)].seen = TRUE]
           /\ CountFault(~ok \/ deleted)
           /\ UNCHANGED <<ds, ijobs, now>>
    ELSE \E ok \in BOOLEAN :
           /\ EmbeddingJobStatusUpdate(n,
                [job EXCEPT !.phase = "Failed",
                            !.message = "Job failed after maximum retries",
                            !.failSeen = @ + 1,
                            !.wlFailed = IF wl[EmbeddingJobKey(n)].seen THEN @ ELSE @ + 1],
                ok)
           /\ wl' = IF ok THEN [wl EXCEPT ![EmbeddingJobKey(n)].seen = TRUE] ELSE wl
           /\ UNCHANGED <<ds, ijobs, now, faults>>

EmbeddingJobReconciler_handleRunningPhase(n) ==
  LET key == EmbeddingJobKey(n) IN
  \/ \* r.Get fails with an error other than NotFound: the error is returned
     UNCHANGED vars
  \/ /\ key \notin DOMAIN wl
     /\ EmbeddingJobReconciler_initializeStatus(n)
  \/ /\ key \in DOMAIN wl
     /\ wl[key].succeeded > 0
     /\ EmbeddingJobReconciler_updateStatusSucceeded(n)
  \/ /\ key \in DOMAIN wl
     /\ wl[key].succeeded = 0 /\ wl[key].failed > 0
     /\ EmbeddingJobReconciler_handleFailed(n)
  \/ /\ key \in DOMAIN wl
     /\ wl[key].succeeded = 0 /\ wl[key].failed = 0
     /\ \E ok \in BOOLEAN :
          EmbeddingJobStatusUpdate(n, [ejobs[n] EXCEPT !.message = "Job running"], ok)
     /\ UNCHANGED <<ds, ijobs, wl, now, faults>>

\* Variant: the finalizer is never removed.
EmbeddingJobReconciler_handleDeletion_keep(n) ==
  /\ n \in DOMAIN ejobs
  /\ UNCHANGED vars

EmbeddingJobReconciler_handleDeletion(n) ==
  \E ok \in BOOLEAN :
    /\ ejobs' = IF ok THEN Remove(ejobs, n) ELSE ejobs
    /\ UNCHANGED <<ds, ijobs, wl, now, faults>>

EmbeddingJobReconciler_addFinalizer(n) ==
  \E ok \in BOOLEAN :
    /\ ejobs' = IF ok THEN [ejobs EXCEPT ![n].finalizer = TRUE] ELSE ejobs
    /\ UNCHANGED <<ds, ijobs, wl, now, faults>>

\* Variant: a task in a terminal phase is started again.
EmbeddingJobReconciler_Reconcile_restart(n) ==
  /\ n \in DOMAIN ejobs
  /\ IF ejobs[n].deleting THEN EmbeddingJobReconciler_handleDeletion(n)
     ELSE IF ~ejobs[n].finalizer THEN EmbeddingJobReconciler_addFinalizer(n)
     ELSE IF ejobs[n].phase = "Running" THEN EmbeddingJobReconciler_handleRunningPhase(n)
     ELSE EmbeddingJobReconciler_handlePendingPhase(n)

EmbeddingJobReconciler_Reconcile(n) ==
  /\ n \in DOMAIN ejobs
  /\ IF ejobs[n].deleting THEN EmbeddingJobReconciler_handleDeletion(n)
     ELSE IF ~ejobs[n].finalizer THEN EmbeddingJobReconciler_addFinalizer(n)
     ELSE IF ejobs[n].phase = "" THEN EmbeddingJobReconciler_initializeStatus(n)
     ELSE CASE ejobs[n].phase = "Pending" -> EmbeddingJobReconciler_handlePendingPhase(n)
            [] ejobs[n].phase = "Running" -> EmbeddingJobReconciler_handleRunningPhase(n)
            [] ejobs[n].phase \in EmbeddingJobTerminal -> UNCHANGED vars
            [] OTHER -> EmbeddingJobReconciler_initializeStatus(n)

(* -------------------------------------------------- Index-Task Reconciler *)

\* Name: indexJob.Name + "-job"
IndexJobKey(n) == <<"index", n>>

\* r.Status().Update on an IndexJob.
IndexJobStatusUpdate(n, new, ok) ==
  ijobs' = IF ok THEN [ijobs EXCEPT ![n] = new] ELSE ijobs

IndexJobReconciler_initializeStatus(n) ==
  \E ok \in BOOLEAN :
    /\ IndexJobStatusUpdate(n,
         [ijobs[n] EXCEPT !.phase = "Pending",
                          !.message = "IndexJob created, waiting to start"], ok)
    /\ UNCHANGED <<ds, ejobs, wl, now, faults>>

\* caused: a failed cluster-API call brought the reconciler here.
IndexJobReconciler_updateStatusFailed(n, message, caused) ==
  \E ok \in BOOLEAN :
    /\ IndexJobStatusUpdate(n,
         [ijobs[n] EXCEPT !.phase = "Failed", !.message = message], ok)
    /\ CountFault(~(caused /\ ok))
    /\ UNCHANGED <<ds, ejobs, wl, now>>

\* Variant: the alias swap is never recorded.
JobSucceededStatus_noSwap(job) ==
  [job EXCEPT !.phase = "Succeeded",
              !.message = "Index building completed successfully",
              !.conditions = SetStatusCondition(
                               SetStatusCondition(@, "IndexCreated", "True"),
                               "IndexOptimized", "True")]

\* The status handleJobSucceeded stores: the alias swap is recorded when
\* spec.targetAlias is set, and the phase written is Succeeded either way.
JobSucceededStatus(job) ==
  LET built == [job EXCEPT !.conditions = SetStatusCondition(@, "IndexCreated", "True")]
      swapped == IF job.targetAlias # ""
                   THEN [built EXCEPT
                           !.phase = "Optimizing",
                           !.message = "Index built, performing alias swap",
                           !.conditions = SetStatusCondition(@, "AliasSwapped", "True"),
                           !.swapMessage = <<job.targetAlias, job.collection>>,
                           !.aliasSwapped = TRUE]
                   ELSE built
  IN [swapped EXCEPT !.phase = "Succeeded",
                     !.message = "Index building completed successfully",
                     !.conditions = SetStatusCondition(@, "IndexOptimized", "True")]

IndexJobReconciler_handleJobSucceeded(n) ==
  \E ok \in BOOLEAN :
    /\ IndexJobStatusUpdate(n, JobSucceededStatus(ijobs[n]), ok)
    /\ UNCHANGED <<ds, ejobs, wl, now, faults>>

\* Variant: an Optimizing task is handled like one that has just been created.
IndexJobReconciler_handleOptimizingPhase_restart(n) ==
  IndexJobReconciler_initializeStatus(n)

IndexJobReconciler_handleOptimizingPhase(n) ==
  IndexJobReconciler_handleJobSucceeded(n)

IndexJobReconciler_handlePendingPhase(n) ==
  \/ \* r.Get of the DocumentSet returns NotFound
     /\ ~ds.exists
     /\ IndexJobReconciler_updateStatusFailed(n, "Failed to get DocumentSet", FALSE)
  \/ \* r.Get of the DocumentSet fails with any other error
     /\ ds.exists
     /\ IndexJobReconciler_updateStatusFailed(n, "Failed to get DocumentSet", TRUE)
  \/ \* r.Create of the Job fails with an error other than AlreadyExists
     /\ ds.exists
     /\ IndexJobReconciler_updateStatusFailed(n, "Failed to create Job", TRUE)
  \/ /\ ds.exists
     /\ \E ok \in BOOLEAN :
          /\ wl' = IF IndexJobKey(n) \in DOMAIN wl
                     THEN wl   \* AlreadyExists is tolerated
                     ELSE Put(wl, IndexJobKey(n),
                              \* Args: []string{indexJob.Name}
                              NewWorkload(<<IndexJobName(n)>>))
          /\ IndexJobStatusUpdate(n,
               [ijobs[n] EXCEPT !.phase = "Building",
                                !.message = "Index building started",
                                !.jobRef = "job",
                                !.conditions = SetStatusCondition(@, "IndexCreated", "False")],
               ok)
          /\ CountFault(ok)
          /\ UNCHANGED <<ds, ejobs, now>>

\* The failed > 0 branch of handleBuildingPhase.
IndexJobReconciler_handleFailed(n) ==
  LET job == ijobs[n] IN
  IF ShouldRetry(job)
    THEN \E ok \in BOOLEAN, deleted \in BOOLEAN :
           /\ IndexJobStatusUpdate(n,
                [job EXCEPT !.retryCount = @ + 1,
                            !.phase = "Pending",
                            !.message = "Retrying",
                            !.failSeen = @ + 1,
                            !.wlFailed = IF wl[IndexJobKey(n)].seen THEN @ ELSE @ + 1],
                ok)
           \* r.Delete runs only after the status update went through
           /\ wl' = IF ~ok THEN wl
                    ELSE IF deleted THEN Remove(wl, IndexJobKey(n))
                    ELSE [wl EXCEPT ![IndexJobKey(n)].seen = TRUE]
           /\ CountFault(~ok \/ deleted)
           /\ UNCHANGED <<ds, ejobs, now>>
    ELSE \E ok \in BOOLEAN :
           /\ IndexJobStatusUpdate(n,
                [job EXCEPT !.phase = "Failed",
                            !.message = "Job failed after maximum retries",
                            !.failSeen = @ + 1,
                            !.wlFailed = IF wl[IndexJobKey(n)].seen THEN @ ELSE @ + 1],
                ok)
           /\ wl' = IF ok THEN [wl EXCEPT ![IndexJobKey(n)].seen = TRUE] ELSE wl
           /\ UNCHANGED <<ds, ejobs, now, faults>>

IndexJobReconciler_handleBuildingPhase(n) ==
  LET key == IndexJobKey(n) IN
  \/ \* r.Get fails with an error other than NotFound: the error is returned
     UNCHANGED vars
  \/ /\ key \notin DOMAIN wl
     /\ IndexJobReconciler_initializeStatus(n)
  \/ /\ key \in DOMAIN wl
     /\ wl[key].succeeded > 0
     /\ IndexJobReconciler_handleJobSucceeded(n)
  \/ /\ key \in DOMAIN wl
     /\ wl[key].succeeded = 0 /\ wl[key].failed > 0
     /\ IndexJobReconciler_handleFailed(n)
  \/ /\ key \in DOMAIN wl
     /\ wl[key].succeeded = 0 /\ wl[key].failed = 0
     /\ \E ok \in BOOLEAN :
          IndexJobStatusUpdate(n, [ijobs[n] EXCEPT !.message = "Index build running"], ok)
     /\ UNCHANGED <<ds, ejobs, wl, now, faults>>

IndexJobReconciler_handleDeletion(n) ==
  \E ok \in BOOLEAN :
    /\ ijobs' = IF ok THEN Remove(ijobs, n) ELSE ijobs
    /\ UNCHANGED <<ds, ejobs, wl, now, faults>>

IndexJobReconciler_addFinalizer(n) ==
  \E ok \in BOOLEAN :
    /\ ijobs' = IF ok THEN [ijobs EXCEPT ![n].finalizer = TRUE] ELSE ijobs
    /\ UNCHANGED <<ds, ejobs, wl, now, faults>>

IndexJobReconciler_Reconcile(n) ==
  /\ n \in DOMAIN ijobs
  /\ IF ijobs[n].deleting THEN IndexJobReconciler_handleDeletion(n)
     ELSE IF ~ijobs[n].finalizer THEN IndexJobReconciler_addFinalizer(n)
     ELSE IF ijobs[n].phase = "" THEN IndexJobReconciler_initializeStatus(n)
     ELSE CASE ijobs[n].phase = "Pending" -> IndexJobReconciler_handlePendingPhase(n)
            [] ijobs[n].phase = "Building" -> IndexJobReconciler_handleBuildingPhase(n)
            [] ijobs[n].phase = "Optimizing" -> IndexJobReconciler_handleOptimizingPhase(n)
            [] ijobs[n].phase \in IndexJobTerminal -> UNCHANGED vars
            [] OTHER -> IndexJobReconciler_initializeStatus(n)

(* ------------------------------------------------------------ environment *)

\* One second passes.
Tick ==
  /\ TicksUsed(now) < MaxTicks
  /\ now' = now + 1
  /\ UNCHANGED <<ds, ejobs, ijobs, wl, faults>>

\* More than five minutes pass.
LongWait ==
  /\ TicksUsed(now) < MaxTicks
  /\ now' = now + AutoRetrySeconds + 1
  /\ UNCHANGED <<ds, ejobs, ijobs, wl, faults>>

\* The user edits the DocumentSet spec: the API server increments generation.
EditSpec ==
  /\ ds.exists /\ ~ds.deleting
  /\ ds.generation < MaxGeneration
  \* the edit repairs a secretRef that named no Secret
  /\ ds' = [ds EXCEPT !.generation = @ + 1, !.secretMissing = FALSE]
  /\ UNCHANGED <<ejobs, ijobs, wl, now, faults>>

\* The document source changes after the last sync cycle has completed.
\* sourceChanged: the source differs from what the current cycle processed.
ChangeSource ==
  /\ ds.exists /\ ds.phase = "Ready" /\ ~ds.sourceChanged
  /\ ds' = [ds EXCEPT !.sourceChanged = TRUE]
  /\ UNCHANGED <<ejobs, ijobs, wl, now, faults>>

\* The user deletes the DocumentSet: with a finalizer the deletion timestamp is
\* set, without one the object is removed.
DeleteDocumentSet ==
  /\ ds.exists /\ ~ds.deleting
  /\ ds' = IF ds.finalizer THEN [ds EXCEPT !.deleting = TRUE]
                           ELSE [ds EXCEPT !.exists = FALSE]
  /\ UNCHANGED <<ejobs, ijobs, wl, now, faults>>

\* An EmbeddingJob is deleted, by the user or by the garbage collector once its
\* owner is gone.
DeleteEmbeddingJob(n) ==
  /\ n \in DOMAIN ejobs /\ ~ejobs[n].deleting
  /\ ejobs' = IF ejobs[n].finalizer THEN [ejobs EXCEPT ![n].deleting = TRUE]
                                    ELSE Remove(ejobs, n)
  /\ CountFault(FALSE)
  /\ UNCHANGED <<ds, ijobs, wl, now>>

DeleteIndexJob(n) ==
  /\ n \in DOMAIN ijobs /\ ~ijobs[n].deleting
  /\ ijobs' = IF ijobs[n].finalizer THEN [ijobs EXCEPT ![n].deleting = TRUE]
                                    ELSE Remove(ijobs, n)
  /\ CountFault(FALSE)
  /\ UNCHANGED <<ds, ejobs, wl, now>>

\* buildK8sJob gives the embedding container the source Secret through
\* EnvFrom: while that Secret is missing the pod cannot start.
PodCanStart(k) == ~(k[1] = "embedding" /\ ds.secretMissing)

\* A pod of the workload finishes successfully.  The worker has written its
\* progress to the status of its task, when the task is still there.
WorkloadSucceeds(k) ==
  /\ k \in DOMAIN wl /\ wl[k].succeeded = 0
  /\ PodCanStart(k)
  /\ wl' = [wl EXCEPT ![k].succeeded = 1]
  /\ \E total \in 1..MaxChunks :
       /\ ejobs' = IF k[1] = "embedding" /\ k[2] \in DOMAIN ejobs
                     THEN [ejobs EXCEPT ![k[2]].totalChunks = total]
                     ELSE ejobs
       /\ ijobs' = IF k[1] = "index" /\ k[2] \in DOMAIN ijobs
                     THEN [ijobs EXCEPT ![k[2]].totalVectors = total]
                     ELSE ijobs
  /\ UNCHANGED <<ds, now, faults>>

\* A pod of the workload fails.
WorkloadFails(k) ==
  /\ k \in DOMAIN wl /\ wl[k].succeeded = 0 /\ wl[k].failed = 0
  /\ PodCanStart(k)
  /\ wl' = [wl EXCEPT ![k].failed = 1]
  /\ CountFault(FALSE)
  /\ UNCHANGED <<ds, ejobs, ijobs, now>>

\* The workload is removed: by its TTL after it finished, by the user, or by the
\* garbage collector once its owning task is gone.
WorkloadLost(k) ==
  /\ k \in DOMAIN wl
  /\ wl' = Remove(wl, k)
  /\ CountFault(FALSE)
  /\ UNCHANGED <<ds, ejobs, ijobs, now>>

\* What deleting the tasks in c leaves of the tasks in jobs: a task with a
\* finalizer gets its deletion timestamp, one without is removed.
DeleteAll(jobs, c) ==
  [n \in {m \in DOMAIN jobs : m \notin c \/ jobs[m].finalizer} |->
     IF n \in c THEN [jobs[n] EXCEPT !.deleting = TRUE] ELSE jobs[n]]

\* The EmbeddingJobs the garbage collector has to delete: their owner, the
\* DocumentSet, is gone.
OrphanEmbeddingJobs ==
  {n \in DOMAIN ejobs : ~ds.exists /\ ejobs[n].ownerRef /\ ~ejobs[n].deleting}

OrphanIndexJobs ==
  {n \in DOMAIN ijobs : ~ds.exists /\ ijobs[n].ownerRef /\ ~ijobs[n].deleting}

\* The task a workload belongs to is gone.
OwnerGone(k) ==
  IF k[1] = "embedding" THEN k[2] \notin DOMAIN ejobs ELSE k[2] \notin DOMAIN ijobs

OrphanWorkloads == {k \in DOMAIN wl : wl[k].ownerRef /\ OwnerGone(k)}

\* A pass of the garbage collector over the dependents of the DocumentSet.
CollectEmbeddingJobs ==
  /\ OrphanEmbeddingJobs # {}
  /\ ejobs' = DeleteAll(ejobs, OrphanEmbeddingJobs)
  /\ UNCHANGED <<ds, ijobs, wl, now, faults>>

CollectIndexJobs ==
  /\ OrphanIndexJobs # {}
  /\ ijobs' = DeleteAll(ijobs, OrphanIndexJobs)
  /\ UNCHANGED <<ds, ejobs, wl, now, faults>>

\* A pass of the garbage collector over the workloads whose task is gone.
CollectWorkloads ==
  /\ OrphanWorkloads # {}
  /\ wl' = [k \in DOMAIN wl \ OrphanWorkloads |-> wl[k]]
  /\ UNCHANGED <<ds, ejobs, ijobs, now, faults>>

(* ------------------------------------------------------------------- Init *)

\* A DocumentSet as the user has just created it: generation 1, empty status.
NewDocumentSet(autoRetry, alias) ==
  [ exists |-> TRUE, deleting |-> FALSE, finalizer |-> FALSE,
    generation |-> 1, autoRetry |-> autoRetry, alias |-> alias,
    phase |-> "", message |-> <<>>, observedGeneration |-> 0,
    lastUpdateTime |-> NoTime,
    lastEmbeddingJobRef |-> NoRef, lastIndexJobRef |-> NoRef,
    currentCollection |-> NoCollection,
    totalChunks |-> 0, totalVectors |-> 0,
    conditions |-> <<>>,
    \* history: the Reason of the condition the last status update has set
    lastReason |-> NoReason,
    lastSourceHash |-> NoHash, lastSuccessfulSyncTime |-> NoTime,
    syncPolicy |-> AutoSyncPolicy, lastSourceCheckTime |-> NoTime,
    sourceChanged |-> FALSE, skippedSync |-> FALSE,
    \* Spec.Source.SecretRef names a Secret that does not exist
    secretMissing |-> FALSE ]

Init ==
  /\ \E a \in BOOLEAN, al \in Aliases, sm \in BOOLEAN :
       ds = [NewDocumentSet(a, al) EXCEPT !.secretMissing = sm]
  /\ ejobs = <<>>
  /\ ijobs = <<>>
  /\ wl = <<>>
  /\ now = 0
  /\ faults = MaxFaults

Next ==
  \/ DocumentSetReconciler_Reconcile
  \/ \E n \in DOMAIN ejobs : EmbeddingJobReconciler_Reconcile(n)
  \/ \E n \in DOMAIN ijobs : IndexJobReconciler_Reconcile(n)
  \/ Tick
  \/ LongWait
  \/ EditSpec
  \/ ChangeSource
  \/ DeleteDocumentSet
  \/ \E n \in DOMAIN ejobs : DeleteEmbeddingJob(n)
  \/ \E n \in DOMAIN ijobs : DeleteIndexJob(n)
  \/ \E k \in DOMAIN wl : WorkloadSucceeds(k)
  \/ \E k \in DOMAIN wl : WorkloadFails(k)
  \/ \E k \in DOMAIN wl : WorkloadLost(k)

Spec == Init /\ [][Next]_vars

(* ------------------------------------- deletion and garbage collection *)

\* The reconcilers, the workloads and the clock, the deletion of the
\* DocumentSet and the garbage collector; the spec is not edited.
NextDeletion ==
  \/ DocumentSetReconciler_Reconcile
  \/ \E n \in DOMAIN ejobs : EmbeddingJobReconciler_Reconcile(n)
  \/ \E n \in DOMAIN ijobs : IndexJobReconciler_Reconcile(n)
  \/ Tick
  \/ DeleteDocumentSet
  \/ \E k \in DOMAIN wl : WorkloadSucceeds(k)
  \/ \E k \in DOMAIN wl : WorkloadFails(k)
  \/ CollectEmbeddingJobs
  \/ CollectIndexJobs
  \/ CollectWorkloads

\* The controller manager keeps reconciling every object and the garbage
\* collector keeps running.
SpecDeletion ==
  /\ Init /\ [][NextDeletion]_vars
  /\ WF_vars(DocumentSetReconciler_Reconcile)
  /\ WF_vars(\E n \in DOMAIN ejobs : EmbeddingJobReconciler_Reconcile(n))
  /\ WF_vars(\E n \in DOMAIN ijobs : IndexJobReconciler_Reconcile(n))
  /\ WF_vars(CollectEmbeddingJobs)
  /\ WF_vars(CollectIndexJobs)
  /\ WF_vars(CollectWorkloads)

(* ------------------------------------------ a Pipeline left to itself *)

\* The reconcilers, the workloads and the clock, and child tasks deleted from
\* outside; the spec is not edited and the DocumentSet is not deleted.
NextPipelineFair ==
  \/ DocumentSetReconciler_Reconcile
  \/ \E n \in DOMAIN ejobs : EmbeddingJobReconciler_Reconcile(n)
  \/ \E n \in DOMAIN ijobs : IndexJobReconciler_Reconcile(n)
  \/ Tick
  \/ \E n \in DOMAIN ejobs : DeleteEmbeddingJob(n)
  \/ \E n \in DOMAIN ijobs : DeleteIndexJob(n)
  \/ \E k \in DOMAIN wl : WorkloadSucceeds(k)
  \/ \E k \in DOMAIN wl : WorkloadFails(k)

\* Every reconciler is invoked again and again, and a workload that has not
\* reported yet eventually reports success or failure.
SpecPipelineFair ==
  /\ Init /\ [][NextPipelineFair]_vars
  /\ WF_vars(DocumentSetReconciler_Reconcile)
  /\ WF_vars(\E n \in DOMAIN ejobs : EmbeddingJobReconciler_Reconcile(n))
  /\ WF_vars(\E n \in DOMAIN ijobs : IndexJobReconciler_Reconcile(n))
  /\ WF_vars(\E k \in DOMAIN wl : WorkloadSucceeds(k) \/ WorkloadFails(k))

(* ------------------------------------------- a single task of each kind *)

\* retryPolicy of a task: absent, or maxRetries 0 or 1.
RetryPolicies == {NoPolicy, 0, 1}

\* One EmbeddingJob or one IndexJob as created, with any retry policy and
\* target alias, next to an existing DocumentSet; only the task reconcilers
\* and the cluster act.  The IndexJob may also be found in Optimizing, a phase
\* the API accepts and this reconciler handles but never writes.
InitTask ==
  /\ ds = NewDocumentSet(FALSE, "")
  /\ \E p \in RetryPolicies :
       \/ /\ ejobs = Put(<<>>, 0, [NewEmbeddingJob(CollectionName(0))
                                     EXCEPT !.maxRetries = p])
          /\ ijobs = <<>>
       \/ /\ ejobs = <<>>
          /\ \E a \in Aliases :
               \E ph \in {"", "Optimizing"} :
                 ijobs = Put(<<>>, 0, [NewIndexJob(CollectionName(0), a)
                                        EXCEPT !.maxRetries = p, !.phase = ph])
  /\ wl = <<>>
  /\ now = 0
  /\ faults = MaxTaskFaults

NextTask ==
  \/ \E n \in DOMAIN ejobs : EmbeddingJobReconciler_Reconcile(n)
  \/ \E n \in DOMAIN ijobs : IndexJobReconciler_Reconcile(n)
  \/ DeleteDocumentSet
  \/ \E n \in DOMAIN ejobs : DeleteEmbeddingJob(n)
  \/ \E n \in DOMAIN ijobs : DeleteIndexJob(n)
  \/ \E k \in DOMAIN wl : WorkloadSucceeds(k)
  \/ \E k \in DOMAIN wl : WorkloadFails(k)
  \/ \E k \in DOMAIN wl : WorkloadLost(k)

SpecTask == InitTask /\ [][NextTask]_vars

\* A single task whose workloads are left to the reconciler: nobody else
\* deletes them or the task.
NextTaskFair ==
  \/ \E n \in DOMAIN ejobs : EmbeddingJobReconciler_Reconcile(n)
  \/ \E n \in DOMAIN ijobs : IndexJobReconciler_Reconcile(n)
  \/ DeleteDocumentSet
  \/ \E k \in DOMAIN wl : WorkloadSucceeds(k)
  \/ \E k \in DOMAIN wl : WorkloadFails(k)

\* The task reconcilers are invoked again and again (every reconcile that
\* leaves a task non-terminal requeues or returns an error), and a workload
\* that has not reported yet eventually reports success or failure.
SpecTaskFair ==
  /\ InitTask /\ [][NextTaskFair]_vars
  /\ WF_vars(\E n \in DOMAIN ejobs : EmbeddingJobReconciler_Reconcile(n))
  /\ WF_vars(\E n \in DOMAIN ijobs : IndexJobReconciler_Reconcile(n))
  /\ WF_vars(\E k \in DOMAIN wl : WorkloadSucceeds(k) \/ WorkloadFails(k))

(* --------------------------------------------------------- source watcher *)

\* In this part ds is the DocumentSet handed to CheckSourceChanges together
\* with the document source it names and the results returned so far:
\*   sourceType, status (lastSourceHash, sourceMetadata),
\*   source (what the bucket, URL, repository or volume holds),
\*   result, previous (the last two SourceChangeResults).
\* A string is the sequence of its bytes.

\* Longest object key, in bytes.
MaxKeyLen == 2

\* Most objects in a bucket or files on a volume.
MaxFiles == 2

\* Hours the clock can advance.
MaxHours == 1

\* time.Now().Format("2006-01-02-15") changes once an hour.
SecondsPerHour == 3600

Slash == 47        \* "/"
NumberSign == 35   \* "#"

\* Object keys start with "a" and go on with "a", "b" or, for a directory
\* marker, "/".
FileKeys ==
  {k \in UNION {[1..n -> {97, 98, Slash}] : n \in 1..MaxKeyLen} :
     /\ k[1] = 97
     /\ \A i \in DOMAIN k : k[i] = Slash => i = Len(k) /\ i > 1}

\* Per-file hashes: the ETag without its quotes (longer for a multipart
\* upload), the digest of the file, or "<mtime>-<size>"; they differ in
\* length.
ETags == {<<98>>, <<97, 98>>}

SourceTypes == {"s3", "http", "git", "pvc"}

Range(s) == {s[i] : i \in DOMAIN s}

\* Every order in which the elements of S can be enumerated.
Orderings(S) ==
  {s \in [1..Cardinality(S) -> S] : \A x \in S : \E i \in DOMAIN s : s[i] = x}

\* strings.HasSuffix(key, "/")
IsDirectory(key) == key[Len(key)] = Slash

NotDirectory(key) == ~IsDirectory(key)

\* s < t for Go strings: bytewise lexicographic order.
RECURSIVE StringLess(_, _)
StringLess(s, t) ==
  IF t = <<>> THEN FALSE
  ELSE IF s = <<>> THEN TRUE
  ELSE IF Head(s) # Head(t) THEN Head(s) < Head(t)
  ELSE StringLess(Tail(s), Tail(t))

RECURSIVE SortedInsert(_, _)
SortedInsert(x, sorted) ==
  IF sorted = <<>> THEN <<x>>
  ELSE IF StringLess(Head(sorted), x) THEN <<Head(sorted)>> \o SortedInsert(x, Tail(sorted))
  ELSE <<x>> \o sorted

\* sort.Strings
RECURSIVE SortStrings(_)
SortStrings(s) ==
  IF s = <<>> THEN <<>> ELSE SortedInsert(Head(s), SortStrings(Tail(s)))

\* The pages of a listing one after the other.
RECURSIVE Concat(_)
Concat(pages) ==
  IF pages = <<>> THEN <<>> ELSE Head(pages) \o Concat(Tail(pages))

\* hex.EncodeToString(hasher.Sum(nil)): SHA-256 is taken to be free of
\* collisions, so the digest stands for the bytes written to the hasher; it is
\* never the empty string.
Sha256Hex(written) == <<written>>

\* for _, f := range allFiles { hasher.Write(f); hasher.Write(fileHashes[f]) }
RECURSIVE WriteAll(_, _)
WriteAll(allFiles, fileHashes) ==
  IF allFiles = <<>> THEN <<>>
  ELSE Head(allFiles) \o fileHashes[Head(allFiles)]
         \o WriteAll(Tail(allFiles), fileHashes)

\* Variant: the files are hashed in the order they were listed.
CombinedHash_unsorted(allFiles, fileHashes) ==
  Sha256Hex(WriteAll(allFiles, fileHashes))

\* Sort files for consistent hash calculation, then hash keys and file hashes.
CombinedHash(allFiles, fileHashes) ==
  Sha256Hex(WriteAll(SortStrings(allFiles), fileHashes))

\* fmt.Sprintf("%d", n) for a single digit
Sprintf(n) == <<48 + n>>

\* The hour bucket of the time t.
FormatHour(t) == <<t \div SecondsPerHour>>

\* A nil *SourceMetadata.
NoMetadata ==
  [ present |-> FALSE, fileCount |-> 0, hasFileHashes |-> FALSE,
    fileHashes |-> <<>>, gitCommitHash |-> <<>> ]

\* &SourceMetadata{FileCount: n, FileHashes: fileHashes}
FileMetadata(n, fileHashes) ==
  [ present |-> TRUE, fileCount |-> n, hasFileHashes |-> TRUE,
    fileHashes |-> fileHashes, gitCommitHash |-> <<>> ]

\* No result yet.
NoResult == [done |-> FALSE, failed |-> FALSE]

\* return nil, err
ErrorResult == [done |-> TRUE, failed |-> TRUE]

\* &SourceChangeResult{NewHash: newHash, NewMetadata: metadata}
NewResult(newHash, metadata) ==
  [ done |-> TRUE, failed |-> FALSE,
    changed |-> FALSE, newHash |-> newHash, newMetadata |-> metadata,
    filesChanged |-> 0, filesAdded |-> 0, filesDeleted |-> 0,
    changedFiles |-> <<>>, addedFiles |-> <<>>, deletedFiles |-> <<>>,
    \* diffFileHashes has been called
    compared |-> FALSE ]

\* Variant: a file in both maps counts as changed whatever its hashes.
diffFileHashes_noCompare(old, new, rangeNew, rangeOld) ==
  LET isAdded(f) == f \notin DOMAIN old
      isChanged(f) == f \in DOMAIN old
      isDeleted(f) == f \notin DOMAIN new
  IN [ added |-> SelectSeq(rangeNew, isAdded),
       deleted |-> SelectSeq(rangeOld, isDeleted),
       changed |-> SelectSeq(rangeNew, isChanged) ]

\* rangeNew and rangeOld are the orders in which the two range loops visit the
\* keys of the maps.
diffFileHashes(old, new, rangeNew, rangeOld) ==
  LET isAdded(f) == f \notin DOMAIN old
      isChanged(f) == f \in DOMAIN old /\ old[f] # new[f]
      isDeleted(f) == f \notin DOMAIN new
  IN [ added |-> SelectSeq(rangeNew, isAdded),
       deleted |-> SelectSeq(rangeOld, isDeleted),
       changed |-> SelectSeq(rangeNew, isChanged) ]

\* The comparison with the previous state that checkS3Source and the walking
\* branch of checkPVCSource share.
CompareWithStatus(d, result, fileHashes, fileCount, rangeNew, rangeOld) ==
  LET last == d.status.lastSourceHash
      meta == d.status.sourceMetadata
      diff == diffFileHashes(meta.fileHashes, fileHashes, rangeNew, rangeOld)
  IN IF last # <<>> /\ last # result.newHash
       THEN IF meta.present /\ meta.hasFileHashes
              THEN [result EXCEPT !.changed = TRUE,
                                  !.addedFiles = diff.added,
                                  !.deletedFiles = diff.deleted,
                                  !.changedFiles = diff.changed,
                                  !.filesAdded = Len(diff.added),
                                  !.filesDeleted = Len(diff.deleted),
                                  !.filesChanged = Len(diff.changed),
                                  !.compared = TRUE]
              ELSE [result EXCEPT !.changed = TRUE]
       ELSE IF last = <<>>
              THEN [result EXCEPT !.changed = TRUE, !.filesAdded = fileCount]
              ELSE result

checkS3Source(d, rangeNew, rangeOld) ==
  LET allFiles == SelectSeq(Concat(d.source.listing), NotDirectory)
      fileHashes == [f \in Range(allFiles) |-> d.source.files[f]]
      fileCount == Len(allFiles)
      newHash == CombinedHash(allFiles, fileHashes)
      result == NewResult(newHash, FileMetadata(fileCount, fileHashes))
  IN CompareWithStatus(d, result, fileHashes, fileCount, rangeNew, rangeOld)

\* http.StatusOK
StatusOK == 200

checkHTTPSource(d) ==
  IF d.source.headers.statusCode # StatusOK THEN ErrorResult ELSE
  LET etag == d.source.headers.etag
      lastModified == d.source.headers.lastModified
      contentLength == d.source.headers.contentLength
      newHash == Sha256Hex(etag \o lastModified \o Sprintf(contentLength))
      result == NewResult(newHash, [NoMetadata EXCEPT !.present = TRUE])
      last == d.status.lastSourceHash
  IN IF last # <<>> /\ last # newHash
       THEN [result EXCEPT !.changed = TRUE, !.filesChanged = 1]
       ELSE IF last = <<>>
              THEN [result EXCEPT !.changed = TRUE, !.filesAdded = 1]
              ELSE result

\* The place of the first "#" in uri, 0 if there is none.
IndexOfNumberSign(uri) ==
  IF \E i \in DOMAIN uri : uri[i] = NumberSign
    THEN CHOOSE i \in DOMAIN uri :
           /\ uri[i] = NumberSign
           /\ \A j \in 1..(i - 1) : uri[j] # NumberSign
    ELSE 0

checkGitSource(d, t) ==
  LET idx == IndexOfNumberSign(d.source.uri)
      branch == IF idx # 0 THEN SubSeq(d.source.uri, idx + 1, Len(d.source.uri))
                           ELSE <<109, 97, 105, 110>>
      uri == IF idx # 0 THEN SubSeq(d.source.uri, 1, idx - 1) ELSE d.source.uri
      newHash == Sha256Hex(uri \o branch \o FormatHour(t))
      \* newHash[:12], the simulated commit hash
      result == NewResult(newHash, [NoMetadata EXCEPT !.present = TRUE,
                                                      !.gitCommitHash = newHash])
      meta == d.status.sourceMetadata
  IN IF meta.present /\ meta.gitCommitHash # <<>>
       THEN IF meta.gitCommitHash # result.newMetadata.gitCommitHash
              THEN [result EXCEPT !.changed = TRUE]
              ELSE result
       ELSE IF d.status.lastSourceHash = <<>>
              THEN [result EXCEPT !.changed = TRUE]
              ELSE result

checkPVCSource(d, rangeNew, rangeOld) ==
  IF ~d.source.mounted
    THEN \* os.Stat(basePath) says the path does not exist
         LET result == NewResult(Sha256Hex(d.source.uri),
                                 [NoMetadata EXCEPT !.present = TRUE])
         IN IF d.status.lastSourceHash = <<>>
              THEN [result EXCEPT !.changed = TRUE]
              ELSE result
    ELSE LET allFiles == Concat(d.source.listing)
             fileHashes == [f \in Range(allFiles) |-> d.source.files[f]]
             newHash == CombinedHash(allFiles, fileHashes)
             result == NewResult(newHash, FileMetadata(Len(allFiles), fileHashes))
         IN CompareWithStatus(d, result, fileHashes, Len(allFiles), rangeNew, rangeOld)

\* t is time.Now(); rangeNew and rangeOld are the orders of the map iterations.
CheckSourceChanges(d, t, rangeNew, rangeOld) ==
  IF d.source.secretMissing THEN ErrorResult
  ELSE CASE d.sourceType = "s3" -> checkS3Source(d, rangeNew, rangeOld)
         [] d.sourceType = "http" -> checkHTTPSource(d)
         [] d.sourceType = "git" -> checkGitSource(d, t)
         [] d.sourceType = "pvc" -> checkPVCSource(d, rangeNew, rangeOld)

\* The files a check of d puts into its map.
ListedFiles(d) ==
  IF d.sourceType = "s3" THEN {f \in DOMAIN d.source.files : NotDirectory(f)}
  ELSE IF d.sourceType = "pvc" /\ d.source.mounted THEN DOMAIN d.source.files
  ELSE {}

\* The watcher is invoked: the result is returned, the one before it is kept
\* for comparison.  relisted and touched record whether the listing and
\* whether the source had changed since the invocation before.
SourceWatcher_CheckSourceChanges ==
  /\ \E rangeNew \in Orderings(ListedFiles(ds)),
        rangeOld \in Orderings(DOMAIN ds.status.sourceMetadata.fileHashes) :
       LET r == CheckSourceChanges(ds, now, rangeNew, rangeOld)
           seen == [relisted |-> ds.relisted, touched |-> ds.touched]
       IN ds' = [ds EXCEPT !.previous = ds.result,
                           !.result = r @@ seen,
                           !.relisted = FALSE,
                           !.touched = FALSE]
  /\ UNCHANGED <<ejobs, ijobs, wl, now, faults>>

\* Every way the files of S can come back: in any order, on one page or
\* split over two.
Listings(S) ==
  UNION {{<<p>>} \cup {<<SubSeq(p, 1, i), SubSeq(p, i + 1, Len(p))>> : i \in 1..(Len(p) - 1)} :
           p \in Orderings(S)}

\* The bucket or the directory walk returns the same files another way.
Relist ==
  /\ ds.sourceType \in {"s3", "pvc"} /\ ds.source.mounted
  /\ \E l \in Listings(DOMAIN ds.source.files) \ {ds.source.listing} :
       ds' = [ds EXCEPT !.source.listing = l, !.relisted = TRUE]
  /\ UNCHANGED <<ejobs, ijobs, wl, now, faults>>

\* A file is removed from the bucket or the volume.
RemoveFile ==
  /\ ds.sourceType \in {"s3", "pvc"} /\ ds.source.mounted
  /\ \E f \in DOMAIN ds.source.files :
       LET files == [g \in DOMAIN ds.source.files \ {f} |-> ds.source.files[g]]
           keep(g) == g # f
       IN ds' = [ds EXCEPT !.source.files = files,
                           !.source.listing = <<SelectSeq(Concat(ds.source.listing), keep)>>,
                           !.touched = TRUE]
  /\ UNCHANGED <<ejobs, ijobs, wl, now, faults>>

\* An hour passes.
HourPasses ==
  /\ now < MaxHours * SecondsPerHour
  /\ now' = now + SecondsPerHour
  /\ UNCHANGED <<ds, ejobs, ijobs, wl, faults>>

\* At most MaxFiles files under the keys of K.
FileMaps(K) ==
  UNION {[S -> ETags] : S \in {T \in SUBSET K : Cardinality(T) <= MaxFiles}}

\* Response to the HEAD request: status code, ETag, Last-Modified,
\* Content-Length.
HTTPHeaders ==
  [statusCode : {StatusOK, 204, 404},
   etag : {<<>>, <<97>>}, lastModified : {<<>>, <<98>>}, contentLength : {0, 1}]

NoHeaders ==
  [statusCode |-> StatusOK, etag |-> <<>>, lastModified |-> <<>>, contentLength |-> 0]

\* URIs of a Git source: without and with a branch.
GitURIs == {<<97>>, <<97, NumberSign, 98>>}

\* What a source of type t can hold and how it is listed; uri is the URI
\* without its scheme.
Sources(t) ==
  LET base == [uri |-> <<97>>, files |-> <<>>, listing |-> <<<<>>>>,
               headers |-> NoHeaders, mounted |-> TRUE, secretMissing |-> FALSE]
      walked(K) == UNION {{[base EXCEPT !.files = m, !.listing = l] :
                             l \in Listings(DOMAIN m)} : m \in FileMaps(K)}
  IN CASE t = "s3" -> walked(FileKeys)
       [] t = "http" -> {[base EXCEPT !.headers = h] : h \in HTTPHeaders}
       [] t = "git" -> {[base EXCEPT !.uri = u] : u \in GitURIs}
       [] t = "pvc" -> walked({k \in FileKeys : NotDirectory(k)})
                         \cup {[base EXCEPT !.mounted = FALSE]}

\* The status of a DocumentSet never checked before.
EmptyStatus == [lastSourceHash |-> <<>>, sourceMetadata |-> NoMetadata]

\* A status that holds a digest and no metadata.
HashOnlyStatus == [lastSourceHash |-> Sha256Hex(<<>>), sourceMetadata |-> NoMetadata]

\* The status after the result r has been recorded.
StatusAfter(r) == [lastSourceHash |-> r.newHash, sourceMetadata |-> r.newMetadata]

\* The statuses a DocumentSet with a source of type t can carry: none, a
\* digest alone, or what an earlier check of such a source returned.
PriorStatuses(t) ==
  {EmptyStatus, HashOnlyStatus} \cup
  {StatusAfter(r) :
     r \in {c \in {CheckSourceChanges([sourceType |-> t, source |-> s,
                                        status |-> EmptyStatus], 0, <<>>, <<>>) :
                     s \in Sources(t)} : ~c.failed}}

InitWatcher ==
  /\ \E t \in SourceTypes :
       \E s \in Sources(t), st \in PriorStatuses(t), sm \in BOOLEAN :
         ds = [sourceType |-> t, source |-> [s EXCEPT !.secretMissing = sm],
               status |-> st, result |-> NoResult, previous |-> NoResult,
               relisted |-> FALSE, touched |-> FALSE]
  /\ ejobs = <<>>
  /\ ijobs = <<>>
  /\ wl = <<>>
  /\ now = 0
  /\ faults = 0

NextWatcher ==
  \/ SourceWatcher_CheckSourceChanges
  \/ Relist
  \/ RemoveFile
  \/ HourPasses

SpecWatcher == InitWatcher /\ [][NextWatcher]_vars

(* ------------------------------------------------------------ sync gate *)

\* In this part ds is the DocumentSet handed to ShouldSync and GetSyncInterval
\* (syncPolicy, lastSourceCheckTime) together with what they returned at the
\* present time: decision, the pair ShouldSync returned, and requeueAfter, the
\* duration GetSyncInterval returned.

\* Seconds the clock can reach.
MaxSyncTime == 310

\* The steps in which time passes, in seconds.
Waits == {10, 50, 240}

\* Values of policy.Interval: "", "10" (no unit), "10s", "1m", "5m".
Intervals == {<<>>, <<10, "">>, <<10, "s">>, <<1, "m">>, <<5, "m">>}

SyncPolicies ==
  {NoSyncPolicy} \cup
  [present : {TRUE}, pauseSync : BOOLEAN, mode : {"auto", "manual"},
   interval : Intervals]

NoDecision == <<>>

InitSync ==
  /\ \E policy \in SyncPolicies :
       ds = [syncPolicy |-> policy, lastSourceCheckTime |-> NoTime,
             decision |-> NoDecision, requeueAfter |-> NoTime]
  /\ ejobs = <<>>
  /\ ijobs = <<>>
  /\ wl = <<>>
  /\ now = 0
  /\ faults = 0

\* ShouldSync is called.
CallShouldSync ==
  /\ ds' = [ds EXCEPT !.decision = SourceWatcher_ShouldSync(ds, now)]
  /\ UNCHANGED <<ejobs, ijobs, wl, now, faults>>

\* GetSyncInterval is called.
CallGetSyncInterval ==
  /\ ds' = [ds EXCEPT !.requeueAfter = GetSyncInterval(ds)]
  /\ UNCHANGED <<ejobs, ijobs, wl, now, faults>>

\* The check that ShouldSync permitted starts: lastSourceCheckTime = now.
RecordCheck ==
  /\ ds.decision # NoDecision /\ ds.decision[1]
  /\ ds' = [ds EXCEPT !.lastSourceCheckTime = now, !.decision = NoDecision]
  /\ UNCHANGED <<ejobs, ijobs, wl, now, faults>>

\* Time passes; what ShouldSync returned earlier is no longer about now.
Wait ==
  /\ \E w \in Waits :
       /\ now + w <= MaxSyncTime
       /\ now' = now + w
  /\ ds' = [ds EXCEPT !.decision = NoDecision]
  /\ UNCHANGED <<ejobs, ijobs, wl, faults>>

NextSync ==
  \/ CallShouldSync
  \/ CallGetSyncInterval
  \/ RecordCheck
  \/ Wait

SpecSync == InitSync /\ [][NextSync]_vars

(* ================================================================ claims *)

NonTerminalEmbeddingJobs ==
  {n \in DOMAIN ejobs : ~ejobs[n].deleting /\ ejobs[n].phase \notin EmbeddingJobTerminal}

NonTerminalIndexJobs ==
  {n \in DOMAIN ijobs : ~ijobs[n].deleting /\ ijobs[n].phase \notin IndexJobTerminal}

\* C1: at every instant the Pipeline owns at most one Embed Task and at most
\* one Index Task that is neither Succeeded nor Failed (tasks already being
\* deleted are not even counted).
C1_SingleInFlightChild ==
  /\ Cardinality(NonTerminalEmbeddingJobs) <= 1
  /\ Cardinality(NonTerminalIndexJobs) <= 1

AllTasks == {ejobs[n] : n \in DOMAIN ejobs} \cup {ijobs[n] : n \in DOMAIN ijobs}

ListedPhaseChange(p, q) ==
  \/ p = "Pending" /\ q = "Embedding"
  \/ p = "Embedding" /\ q = "Indexing"
  \/ p = "Indexing" /\ q = "Ready"
  \/ q = "Failed"
  \/ /\ p = "Failed" /\ q = "Pending"
     /\ ds.autoRetry /\ now - ds.lastUpdateTime > AutoRetrySeconds

\* C3, as stated: with no spec change waiting to be taken in, every change of
\* the Pipeline phase is one of the listed ones; in particular never
\* Embedding -> Pending or Indexing -> Pending.
C3_PhaseChangesListed ==
  [][(ds.phase # ds'.phase /\ ds.generation = ds.observedGeneration)
       => ListedPhaseChange(ds.phase, ds'.phase)]_vars

\* C3, amended: besides the listed changes there is Embedding -> Pending, taken
\* when the Embed Task named by lastEmbeddingJobRef is missing; Indexing never
\* goes back to Pending.
C3_PhaseChangesListedOrChildMissing ==
  [][(ds.phase # ds'.phase /\ ds.generation = ds.observedGeneration)
       => \/ ListedPhaseChange(ds.phase, ds'.phase)
          \/ /\ ds.phase = "Embedding" /\ ds'.phase = "Pending"
             /\ ds.lastEmbeddingJobRef \notin DOMAIN ejobs]_vars

\* A first-generation Pipeline without autoRetry is Pending again after it had
\* created an Embed Task, which is gone.
C3_Witness ==
  /\ ds.phase = "Pending" /\ ds.generation = 1 /\ ~ds.autoRetry
  /\ ds.lastEmbeddingJobRef # NoRef
  /\ ds.lastEmbeddingJobRef \notin DOMAIN ejobs

\* C4: a Ready Pipeline leaves Ready only when generation differs from
\* observedGeneration, and then it moves to Pending; otherwise it stays Ready.
C4_ReadyLeavesOnlyOnSpecChange ==
  [][(ds.phase = "Ready" /\ ds'.phase # "Ready")
       => (ds.generation # ds.observedGeneration /\ ds'.phase = "Pending")]_vars

\* The Pipeline has been Ready and is Pending again.
C4_Witness ==
  /\ ds.phase = "Pending"
  /\ IsConditionTrue(ds.conditions, "IndexingCompleted")

\* C5: a Ready Pipeline has a current collection, both completion conditions
\* True, and its Embed Task and Index Task both target the current collection.
C5_ReadyCollectionConsistent ==
  ds.phase = "Ready" =>
    /\ ds.currentCollection # NoCollection
    /\ IsConditionTrue(ds.conditions, "EmbeddingCompleted")
    /\ IsConditionTrue(ds.conditions, "IndexingCompleted")
    /\ ds.lastEmbeddingJobRef \in DOMAIN ejobs
         => ejobs[ds.lastEmbeddingJobRef].collection = ds.currentCollection
    /\ ds.lastIndexJobRef \in DOMAIN ijobs
         => ijobs[ds.lastIndexJobRef].collection = ds.currentCollection

\* C6: when a sync cycle has reached Ready, lastSourceHash holds the digest of
\* the source that cycle processed (so it is not empty) and
\* lastSuccessfulSyncTime is set.
C6_HashRecordedOnReady ==
  ds.phase = "Ready" =>
    ds.lastSourceHash # NoHash /\ ds.lastSuccessfulSyncTime # NoTime

\* C7: a Pipeline that is Ready with observedGeneration = generation has built
\* its current Embed Task from the spec of the current generation.
C7_ReadyReflectsCurrentSpec ==
  (/\ ds.phase = "Ready"
   /\ ds.observedGeneration = ds.generation
   /\ ds.lastEmbeddingJobRef \in DOMAIN ejobs)
    => ejobs[ds.lastEmbeddingJobRef].createdGen = ds.generation

\* C8: observedGeneration never exceeds metadata.generation.
C8_ObservedGenerationBounded == ds.observedGeneration <= ds.generation

\* The reconciler has taken in a spec edit.
C8_Witness == ds.generation > 1 /\ ds.observedGeneration = ds.generation

\* The status of a task.
EmbeddingJobStatus(job) ==
  <<job.phase, job.message, job.jobRef, job.retryCount, job.conditions>>

IndexJobStatus(job) ==
  <<job.phase, job.message, job.jobRef, job.retryCount, job.conditions,
    job.aliasSwapped>>

\* C9: a reconcile of a task that is Succeeded or Failed leaves every field of
\* its status as it is and neither creates nor deletes a workload.
C9_TerminalTaskImmutable ==
  [][/\ \A n \in DOMAIN ejobs :
          (ejobs[n].phase \in EmbeddingJobTerminal /\ EmbeddingJobReconciler_Reconcile(n))
            => /\ wl' = wl
               /\ n \in DOMAIN ejobs'
                    => EmbeddingJobStatus(ejobs'[n]) = EmbeddingJobStatus(ejobs[n])
     /\ \A n \in DOMAIN ijobs :
          (ijobs[n].phase \in IndexJobTerminal /\ IndexJobReconciler_Reconcile(n))
            => /\ wl' = wl
               /\ n \in DOMAIN ijobs'
                    => IndexJobStatus(ijobs'[n]) = IndexJobStatus(ijobs[n])]_vars

\* An Embed Task that has failed for good while its last workload is still there.
C9_Witness ==
  \E n \in DOMAIN ejobs :
    /\ ejobs[n].phase = "Failed" /\ ejobs[n].retryCount > 0
    /\ EmbeddingJobKey(n) \in DOMAIN wl

\* C10: retryCount never exceeds the effective maxRetries of the task.
C10_RetryCountBounded ==
  \A job \in AllTasks : job.retryCount <= EffectiveMaxRetries(job)

\* A task under the default retry policy has used its last retry and, its
\* workload lost, is Pending again.
C10_Witness ==
  \E n \in DOMAIN ejobs :
    /\ ejobs[n].maxRetries = NoPolicy
    /\ ejobs[n].retryCount = DefaultMaxRetries
    /\ ejobs[n].phase = "Pending"
    /\ EmbeddingJobKey(n) \notin DOMAIN wl

\* C11: an Embed Task that has succeeded has a retryCount equal to the number
\* of failed workloads it went through, and an Embed Task that gave up after
\* its retries went through more failed workloads than maxRetries: with
\* k <= maxRetries failed workloads the task ends Succeeded with retryCount = k
\* and never Failed.
C11_RetriesMatchFailedWorkloads ==
  \A n \in DOMAIN ejobs :
    /\ ejobs[n].phase = "Succeeded" => ejobs[n].retryCount = ejobs[n].wlFailed
    /\ (ejobs[n].phase = "Failed"
          /\ ejobs[n].message = "Job failed after maximum retries")
         => ejobs[n].wlFailed > EffectiveMaxRetries(ejobs[n])

\* C12: with syncPolicy mode auto and pauseSync false, a reconcile of a Ready
\* Pipeline that is due for a source check and whose source has changed since
\* the last sync does not leave the Pipeline Ready: it returns it to Pending.
C12_ChangedSourceRestartsCycle ==
  (ds.phase = "Ready" /\ ds.syncPolicy = AutoSyncPolicy) => ~ds.skippedSync

\* C13: while a Pipeline's source.secretRef names a missing Secret and its spec
\* has not been edited, no Embed Task exists for it and its phase is one of
\* unset, Pending and Failed.
C13_MissingSecretCreatesNoTask ==
  (ds.secretMissing /\ ds.generation = 1) =>
    /\ DOMAIN ejobs = {}
    /\ ds.phase \in {"", "Pending", "Failed"}

\* The Pipeline waits in Embedding for an Embed Task that has Failed.
EmbedTaskFailed ==
  /\ ds.exists /\ ~ds.deleting /\ ds.phase = "Embedding"
  /\ ds.lastEmbeddingJobRef \in DOMAIN ejobs
  /\ ejobs[ds.lastEmbeddingJobRef].phase = "Failed"

\* The Pipeline waits in Indexing for an Index Task that has Failed.
IndexTaskFailed ==
  /\ ds.exists /\ ~ds.deleting /\ ds.phase = "Indexing"
  /\ ds.lastIndexJobRef \in DOMAIN ijobs
  /\ ijobs[ds.lastIndexJobRef].phase = "Failed"

\* A Pipeline reconcile that finds the task it waits for Failed and changes the
\* Pipeline moves it to Failed with the task's message in its own.
FailurePropagates ==
  /\ (EmbedTaskFailed /\ DocumentSetReconciler_Reconcile /\ ds' # ds)
       => /\ ds'.phase = "Failed"
          /\ ds'.message = <<"EmbeddingJob failed", ejobs[ds.lastEmbeddingJobRef].message>>
          /\ ijobs' = ijobs
  /\ (IndexTaskFailed /\ DocumentSetReconciler_Reconcile /\ ds' # ds)
       => /\ ds'.phase = "Failed"
          /\ ds'.message = <<"IndexJob failed", ijobs[ds.lastIndexJobRef].message>>

\* No step creates an Index Task while the Embed Task of the cycle is Failed.
NoIndexJobAfterFailedEmbedding ==
  (DOMAIN ijobs' \ DOMAIN ijobs # {}) =>
    ~(/\ ds.lastEmbeddingJobRef \in DOMAIN ejobs
      /\ ejobs[ds.lastEmbeddingJobRef].phase = "Failed")

\* The DocumentSet reconciler is invoked again and again: a reconcile that
\* fails or changes the status is requeued (Reconcile returns the error or
\* Requeue) and the watch on owned tasks triggers it.
FairSpec ==
  /\ Spec
  /\ WF_vars(DocumentSetReconciler_Reconcile)

\* C14: a Pipeline that waits in Embedding (Indexing) for a task that is
\* Failed is moved on by the reconciler, the move is to Failed with the
\* task's message in the Pipeline's, and no Index Task is created while the
\* cycle's Embed Task is Failed.
C14_TaskFailurePropagates ==
  /\ [][FailurePropagates /\ NoIndexJobAfterFailedEmbedding]_vars
  /\ EmbedTaskFailed ~> ~EmbedTaskFailed
  /\ IndexTaskFailed ~> ~IndexTaskFailed

\* The Pipeline is Failed with the message of its failed Embed Task.
C14_Witness ==
  /\ ds.phase = "Failed"
  /\ ds.lastEmbeddingJobRef \in DOMAIN ejobs
  /\ ds.message = <<"EmbeddingJob failed", ejobs[ds.lastEmbeddingJobRef].message>>

\* C15: a Failed Pipeline changes phase only to Pending, and only when its
\* generation differs from observedGeneration or autoRetry is set and more than
\* five minutes have passed since lastUpdateTime; otherwise it stays Failed;
\* and no step taken while it is Failed creates a child task.
C15_FailedLeavesOnlyByEditOrAutoRetry ==
  [][ds.phase = "Failed" =>
       /\ ds'.phase # "Failed" =>
            /\ ds'.phase = "Pending"
            /\ \/ ds.generation # ds.observedGeneration
               \/ /\ ds.autoRetry
                  /\ now - ds.lastUpdateTime > AutoRetrySeconds
       /\ DOMAIN ejobs' \subseteq DOMAIN ejobs
       /\ DOMAIN ijobs' \subseteq DOMAIN ijobs]_vars

\* A first-generation Pipeline with autoRetry is Pending again while the
\* Embed Task whose failure had made it Failed is still there.
C15_Witness ==
  /\ ds.phase = "Pending" /\ ds.generation = 1 /\ ds.autoRetry
  /\ ds.lastEmbeddingJobRef \in DOMAIN ejobs
  /\ ejobs[ds.lastEmbeddingJobRef].phase = "Failed"

\* Nothing is left of the Pipeline's children.
ChildrenGone == DOMAIN ejobs = {} /\ DOMAIN ijobs = {} /\ DOMAIN wl = {}

\* C16: every Embed Task, Index Task and workload carries the ownership
\* reference of its parent from its creation, and once the Pipeline is deleted
\* all of them are eventually removed, the reconcilers having removed their
\* finalizers.
C16_DeletionRemovesChildren ==
  /\ [](/\ \A n \in DOMAIN ejobs : ejobs[n].ownerRef
        /\ \A n \in DOMAIN ijobs : ijobs[n].ownerRef
        /\ \A k \in DOMAIN wl : wl[k].ownerRef)
  /\ (ds.deleting \/ ~ds.exists) ~> ChildrenGone

\* The Pipeline is gone and so are the tasks and workloads it had: a task of
\* each kind had been created.
C16_Witness ==
  /\ ~ds.exists /\ ChildrenGone
  /\ ds.lastEmbeddingJobRef # NoRef /\ ds.lastIndexJobRef # NoRef

\* The last invocation of the watcher returned a result, not an error.
Returned(r) == r.done /\ ~r.failed

\* C17: diffFileHashes returns as added the keys of new that old lacks, as
\* deleted the keys of old that new lacks and as changed the keys of both whose
\* hashes differ, each key once; the three are pairwise disjoint and a key
\* with the same hash in both maps is in none of them.
C17_DiffPartitionsKeys ==
  (Returned(ds.result) /\ ds.result.compared) =>
    LET old == ds.status.sourceMetadata.fileHashes
        new == ds.result.newMetadata.fileHashes
        added == Range(ds.result.addedFiles)
        deleted == Range(ds.result.deletedFiles)
        changed == Range(ds.result.changedFiles)
    IN /\ added = DOMAIN new \ DOMAIN old
       /\ deleted = DOMAIN old \ DOMAIN new
       /\ changed = {f \in DOMAIN old \cap DOMAIN new : old[f] # new[f]}
       /\ added \cap deleted = {} /\ added \cap changed = {} /\ deleted \cap changed = {}
       /\ \A f \in DOMAIN old \cap DOMAIN new :
            old[f] = new[f] => f \notin added \cup deleted \cup changed
       /\ ds.result.filesAdded = Cardinality(added)
       /\ ds.result.filesDeleted = Cardinality(deleted)
       /\ ds.result.filesChanged = Cardinality(changed)

\* The comparison found one file added, one deleted and one changed.
C17_Witness ==
  /\ Returned(ds.result) /\ ds.result.compared
  /\ ds.result.filesAdded = 1
  /\ ds.result.filesDeleted = 1
  /\ ds.result.filesChanged = 1

\* The source is a bucket or a volume that is walked.
Walked(d) == d.sourceType \in {"s3", "pvc"} /\ d.source.mounted

\* C18: for a bucket or a walked volume newHash is the same for every order
\* and page split in which the same files with the same hashes are listed, and
\* two invocations that saw the same files return the same newHash.
C18_DigestIgnoresListing ==
  (Walked(ds) /\ Returned(ds.result)) =>
    LET fileHashes == ds.result.newMetadata.fileHashes
    IN /\ \A l \in Listings(DOMAIN fileHashes) :
            CombinedHash(Concat(l), fileHashes) = ds.result.newHash
       /\ (Returned(ds.previous)
             /\ ds.previous.newMetadata.fileHashes = fileHashes)
            => ds.previous.newHash = ds.result.newHash

\* Two files were listed in another order than at the invocation before, and
\* not in the sorted one.
C18_Witness ==
  /\ Walked(ds) /\ Returned(ds.result) /\ Returned(ds.previous)
  /\ ds.result.relisted /\ ~ds.result.touched
  /\ ds.result.newMetadata.fileCount = MaxFiles
  /\ Concat(ds.source.listing) # SortStrings(Concat(ds.source.listing))
  /\ ds.previous.newHash = ds.result.newHash

\* C19: two successive invocations of the watcher on a source that has not
\* changed in between return the same newHash, whatever the source type and
\* the time between them.
C19_UnchangedSourceSameHash ==
  (Returned(ds.result) /\ Returned(ds.previous) /\ ~ds.result.touched) =>
    ds.result.newHash = ds.previous.newHash

\* The number of files the invocation found: the listed files, the one URL.
FileCount(d) ==
  IF d.sourceType = "http" THEN 1 ELSE d.result.newMetadata.fileCount

\* C20: changed is true exactly when status.lastSourceHash is empty or differs
\* from newHash, and with an empty lastSourceHash filesAdded is the file
\* count.
C20_ChangedIffHashDiffers ==
  Returned(ds.result) =>
    /\ ds.result.changed <=>
         (ds.status.lastSourceHash = <<>>
            \/ ds.status.lastSourceHash # ds.result.newHash)
    /\ ds.status.lastSourceHash = <<>> => ds.result.filesAdded = FileCount(ds)

\* The interval ShouldSync waits for: the parsed one, five minutes if the
\* string does not parse.
GateInterval(d) ==
  IF ParseDuration(d.syncPolicy.interval) = BadInterval
    THEN DefaultSyncInterval
    ELSE ParseDuration(d.syncPolicy.interval)

\* What ShouldSync returned is right for the present state.
DecisionRight ==
  ds.decision # NoDecision =>
    /\ ds.decision[1] <=>
         /\ ds.syncPolicy.present
         /\ ~ds.syncPolicy.pauseSync
         /\ ds.syncPolicy.mode = "auto"
         /\ \/ ds.lastSourceCheckTime = NoTime
            \/ now - ds.lastSourceCheckTime >= GateInterval(ds)
    /\ (ds.syncPolicy.present /\ ds.syncPolicy.pauseSync)
         => ds.decision = <<FALSE, <<"sync is paused">>>>

\* A call of ShouldSync changes nothing but what it returns.
ShouldSyncReadsOnly ==
  ds'.decision # ds.decision /\ ds'.decision # NoDecision =>
    /\ ds'.lastSourceCheckTime = ds.lastSourceCheckTime
    /\ ds'.syncPolicy = ds.syncPolicy

C22_IntervalFloor ==
  /\ ds.requeueAfter # NoTime =>
       /\ ds.requeueAfter >= MinSyncInterval
       /\ ParseDuration(ds.syncPolicy.interval) = BadInterval
            => ds.requeueAfter = DefaultSyncInterval
  /\ (ds.decision # NoDecision /\ ds.decision[1] /\ ds.lastSourceCheckTime # NoTime)
       => now - ds.lastSourceCheckTime >= MinSyncInterval

\* A step starts a sync cycle of a Pipeline that has had a cycle before.
StartsLaterCycle ==
  /\ ds.phase = "Pending" /\ ds'.phase = "Embedding"
  /\ ds.lastEmbeddingJobRef # NoRef

\* The step gives the cycle an Embed Task name and a collection name other than
\* those of the cycle before, and the Embed Task it names did not exist.
AllocatesFreshNames ==
  /\ ds'.lastEmbeddingJobRef # ds.lastEmbeddingJobRef
  /\ ds'.currentCollection # ds.currentCollection
  /\ ds'.lastEmbeddingJobRef \notin DOMAIN ejobs

\* C23: every sync cycle of a Pipeline gets a collection name and an Embed Task
\* name that no earlier cycle had, so it never takes over, through
\* AlreadyExists, the Embed Task of an earlier cycle.
C23_FreshNamesPerCycle == [][StartsLaterCycle => AllocatesFreshNames]_vars

\* The name of the task that owns the workload k.
OwningTaskName(k) ==
  IF k[1] = "embedding" THEN EmbeddingJobName(k[2]) ELSE IndexJobName(k[2])

\* C24: the argument of the worker command of every workload, Embed or Index,
\* is the name of the task that owns it.
C24_WorkerArgumentIsTaskName ==
  \A k \in DOMAIN wl : wl[k].args = <<OwningTaskName(k)>>

\* C25: the check of an HTTP source returns a result for every response
\* status from 200 to 299 and a failure for every other status.
C25_HTTPSuccessIs2xx ==
  (ds.sourceType = "http" /\ ds.result.done /\ ~ds.source.secretMissing) =>
    (ds.result.failed <=> ds.source.headers.statusCode \notin 200..299)

\* The workload of task n of the given kind is one whose failure a reconcile
\* has already recorded.
RecordedFailureRemains(kind, n) ==
  <<kind, n>> \in DOMAIN wl /\ wl[<<kind, n>>].seen

\* C26: while a task is Pending with a recorded retry, the failed workload of
\* the attempt before is gone, and retryCount is the number of failed
\* workloads, each counted once.
C26_FailedWorkloadCountedOnce ==
  /\ \A n \in DOMAIN ejobs :
       /\ (ejobs[n].phase = "Pending" /\ ejobs[n].retryCount > 0)
            => ~RecordedFailureRemains("embedding", n)
       /\ ejobs[n].retryCount <= ejobs[n].wlFailed
  /\ \A n \in DOMAIN ijobs :
       /\ (ijobs[n].phase = "Pending" /\ ijobs[n].retryCount > 0)
            => ~RecordedFailureRemains("index", n)
       /\ ijobs[n].retryCount <= ijobs[n].wlFailed

\* The step takes the Embed Task n from Pending to Failed.
EmbeddingJobFails(n) ==
  /\ n \in DOMAIN ejobs /\ n \in DOMAIN ejobs'
  /\ ejobs[n].phase = "Pending" /\ ejobs'[n].phase = "Failed"

IndexJobFails(n) ==
  /\ n \in DOMAIN ijobs /\ n \in DOMAIN ijobs'
  /\ ijobs[n].phase = "Pending" /\ ijobs'[n].phase = "Failed"

\* A Pending task becomes Failed only when its Pipeline does not exist.
PendingFailsOnlyWithoutPipeline ==
  /\ \A n \in DOMAIN ejobs : EmbeddingJobFails(n) => ~ds.exists
  /\ \A n \in DOMAIN ijobs : IndexJobFails(n) => ~ds.exists

\* C27: a fetch of the Pipeline that fails with an error other than not-found,
\* or a workload create that fails with an error other than AlreadyExists,
\* never makes a Pending task Failed.
C27_TransientErrorNeverFails == [][PendingFailsOnlyWithoutPipeline]_vars

\* The step writes the status of the Pending Embed Task n whose Pipeline
\* does not exist.
EmbeddingJobOrphanHandled(n) ==
  /\ n \in DOMAIN ejobs /\ n \in DOMAIN ejobs'
  /\ ejobs[n].phase = "Pending" /\ ~ds.exists
  /\ EmbeddingJobStatus(ejobs'[n]) # EmbeddingJobStatus(ejobs[n])

IndexJobOrphanHandled(n) ==
  /\ n \in DOMAIN ijobs /\ n \in DOMAIN ijobs'
  /\ ijobs[n].phase = "Pending" /\ ~ds.exists
  /\ IndexJobStatus(ijobs'[n]) # IndexJobStatus(ijobs[n])

\* A Pending task without Pipeline is set to Failed with the message of the
\* failed fetch, and no workload is created while the Pipeline does not exist.
OrphanTaskFails ==
  /\ \A n \in DOMAIN ejobs :
       EmbeddingJobOrphanHandled(n) =>
         /\ ejobs'[n].phase = "Failed"
         /\ ejobs'[n].message = "Failed to get DocumentSet"
  /\ \A n \in DOMAIN ijobs :
       IndexJobOrphanHandled(n) =>
         /\ ijobs'[n].phase = "Failed"
         /\ ijobs'[n].message = "Failed to get DocumentSet"
  /\ ~ds.exists => DOMAIN wl' \subseteq DOMAIN wl

C29_AliasSwappedIffTargetAlias ==
  \A n \in DOMAIN ijobs :
    LET job == ijobs[n] IN
    /\ job.aliasSwapped => job.phase = "Succeeded"
    /\ job.phase = "Succeeded" =>
         /\ job.aliasSwapped <=> job.targetAlias # ""
         /\ job.aliasSwapped <=> IsConditionTrue(job.conditions, "AliasSwapped")
         /\ job.aliasSwapped => job.swapMessage = <<job.targetAlias, job.collection>>

\* An Index Task with a target alias has succeeded and the swap is recorded.
C29_Witness ==
  \E n \in DOMAIN ijobs :
    /\ ijobs[n].phase = "Succeeded" /\ ijobs[n].targetAlias # ""
    /\ ijobs[n].aliasSwapped

\* What a status update of the Index-Task Reconciler may do about Optimizing:
\* it never writes the phase, it takes a Building task whose workload has
\* succeeded to Succeeded, and it takes an Optimizing task to Succeeded,
\* leaving the workloads alone.
OptimizingFolded ==
  \A n \in DOMAIN ijobs \cap DOMAIN ijobs' :
    /\ ijobs'[n].phase = "Optimizing" => ijobs[n].phase = "Optimizing"
    /\ (/\ ijobs[n].phase = "Building" /\ ijobs'[n].phase # "Building"
        /\ IndexJobKey(n) \in DOMAIN wl /\ wl[IndexJobKey(n)].succeeded > 0)
         => ijobs'[n].phase = "Succeeded"
    /\ (/\ ijobs[n].phase = "Optimizing"
        /\ IndexJobStatus(ijobs'[n]) # IndexJobStatus(ijobs[n]))
         => ijobs'[n].phase = "Succeeded" /\ wl' = wl

\* C30: the Index-Task Reconciler never persists phase Optimizing: a workload
\* that has succeeded takes the task from Building to Succeeded in one update,
\* and a task found in Optimizing is Succeeded after its next reconcile,
\* whatever its workload.
C30_OptimizingNeverPersisted == [][OptimizingFolded]_vars

\* A task found in Optimizing that never had a workload has succeeded.
C30_Witness ==
  \E n \in DOMAIN ijobs :
    /\ ijobs[n].phase = "Succeeded" /\ ijobs[n].jobRef = ""
    /\ IndexJobKey(n) \notin DOMAIN wl

\* C31: while the Pipeline is Embedding, Indexing or Ready, the Embed Task
\* named by lastEmbeddingJobRef and the Index Task named by lastIndexJobRef,
\* when they exist, target status.currentCollection, and the Index Task has
\* the alias of the Pipeline's spec.
C31_TasksTargetCurrentCollection ==
  ds.phase \in {"Embedding", "Indexing", "Ready"} =>
    /\ ds.lastEmbeddingJobRef \in DOMAIN ejobs
         => ejobs[ds.lastEmbeddingJobRef].collection = ds.currentCollection
    /\ ds.lastIndexJobRef \in DOMAIN ijobs
         => /\ ijobs[ds.lastIndexJobRef].collection = ds.currentCollection
            /\ ijobs[ds.lastIndexJobRef].targetAlias = ds.alias

\* The Pipeline becomes Ready in this step.
ReachesReady == ds.phase # "Ready" /\ ds'.phase = "Ready"

\* The totals the Pipeline shows are those of the tasks of its cycle.
TotalsOfCycle ==
  /\ ds.lastEmbeddingJobRef \in DOMAIN ejobs
       => ds'.totalChunks = ejobs[ds.lastEmbeddingJobRef].totalChunks
  /\ ds.lastIndexJobRef \in DOMAIN ijobs
       => ds'.totalVectors = ijobs[ds.lastIndexJobRef].totalVectors

\* C32: when the Pipeline reaches Ready, status.totalChunks is the final
\* progress.totalChunks of the cycle's Embed Task and status.totalVectors the
\* progress.totalVectors of the cycle's Index Task.
C32_TotalsPropagatedOnReady == [][ReachesReady => TotalsOfCycle]_vars

\* The Reason of the condition that goes with the move to a phase, for the
\* phases whose handler sets one.
TransitionReason ==
  [ Embedding |-> "EmbeddingJobCreated",
    Indexing |-> "EmbeddingJobSucceeded",
    Ready |-> "IndexJobSucceeded" ]

\* C33: every status update by which the Pipeline Reconciler changes
\* status.phase sets, in the same update, a condition whose reason matches the
\* transition.
C33_PhaseChangeSetsCondition ==
  [][ds'.phase # ds.phase =>
       /\ ds'.lastReason # NoReason
       /\ ds'.phase \in DOMAIN TransitionReason
            => ds'.lastReason = TransitionReason[ds'.phase]]_vars

\* The Embed Task of the cycle, when it still exists, has succeeded.
EmbedTaskSucceeded ==
  ds.lastEmbeddingJobRef \in DOMAIN ejobs
    => ejobs[ds.lastEmbeddingJobRef].phase = "Succeeded"

\* What a step may do about the Index Task: create one only in Embedding with
\* the cycle's Embed Task there and Succeeded, or in Indexing; enter Indexing
\* only from Embedding in that same way; and keep the cycle's Embed Task while
\* in Indexing or Ready.
IndexingFollowsEmbedding ==
  /\ (DOMAIN ijobs' \ DOMAIN ijobs # {}) =>
       \/ /\ ds.phase = "Embedding"
          /\ ds.lastEmbeddingJobRef \in DOMAIN ejobs /\ EmbedTaskSucceeded
       \/ ds.phase = "Indexing"
  /\ (ds.phase \notin {"Indexing", "Ready"} /\ ds'.phase \in {"Indexing", "Ready"}) =>
       /\ ds.phase = "Embedding" /\ ds'.phase = "Indexing"
       /\ ds.lastEmbeddingJobRef \in DOMAIN ejobs /\ EmbedTaskSucceeded
  /\ (ds.phase \in {"Indexing", "Ready"} /\ ds'.phase \in {"Indexing", "Ready"}) =>
       ds'.lastEmbeddingJobRef = ds.lastEmbeddingJobRef

\* C34: an Index Task is created only after the cycle's Embed Task has been
\* seen Succeeded, also when it is created again because it was missing, and
\* the Pipeline is never Indexing or Ready in a cycle whose Embed Task did not
\* succeed.
C34_IndexTaskOnlyAfterEmbedding ==
  /\ [](ds.phase \in {"Indexing", "Ready"} => EmbedTaskSucceeded)
  /\ [][IndexingFollowsEmbedding]_vars

\* The Pipeline is Indexing with an Index Task it created because the one it
\* had was missing.
C34_Witness ==
  /\ ds.phase = "Indexing"
  /\ ds.lastIndexJobRef \in DOMAIN ijobs
  /\ ijobs[ds.lastIndexJobRef].recreated

\* The workloads of the task of the given kind and name: a workload carries
\* the name of its task as a label and at the head of its own name.
WorkloadsOf(kind, n) == {k \in DOMAIN wl : k[1] = kind /\ k[2] = n}

\* A task that goes from Pending to Running (Building) while a workload of its
\* name exists takes that workload over: none is created or removed.
AdoptsExistingWorkload ==
  /\ \A n \in DOMAIN ejobs \cap DOMAIN ejobs' :
       (/\ ejobs[n].phase = "Pending" /\ ejobs'[n].phase = "Running"
        /\ WorkloadsOf("embedding", n) # {})
         => wl' = wl /\ ejobs'[n].jobRef = "job"
  /\ \A n \in DOMAIN ijobs \cap DOMAIN ijobs' :
       (/\ ijobs[n].phase = "Pending" /\ ijobs'[n].phase = "Building"
        /\ WorkloadsOf("index", n) # {})
         => wl' = wl /\ ijobs'[n].jobRef = "job"

\* C35: at every instant at most one workload exists per Embed Task or Index
\* Task: every attempt uses the workload name "<task-name>-job", and a create
\* that meets a workload of that name adopts it.
C35_OneWorkloadPerTask ==
  /\ [](/\ \A n \in DOMAIN ejobs : Cardinality(WorkloadsOf("embedding", n)) <= 1
        /\ \A n \in DOMAIN ijobs : Cardinality(WorkloadsOf("index", n)) <= 1)
  /\ [][AdoptsExistingWorkload]_vars

\* A task runs its second attempt on the workload of its first, which could
\* not be deleted.
C35_Witness ==
  \E n \in DOMAIN ejobs :
    /\ ejobs[n].phase = "Running" /\ ejobs[n].retryCount > 0
    /\ EmbeddingJobKey(n) \in DOMAIN wl /\ wl[EmbeddingJobKey(n)].seen

\* C36: for a task created without a retryPolicy a failed workload is
\* handled with the defaults, maxRetries 3 and a backoff of 30 s: no reconcile
\* of such a task ends in an error of its own making or a crash, and its
\* retries stay within the default.
C36_DefaultRetryPolicyHandled ==
  \A job \in AllTasks :
    job.maxRetries = NoPolicy =>
      /\ ~job.panicked
      /\ job.retryCount <= DefaultMaxRetries

\* Every task is Succeeded or Failed.
TasksTerminal ==
  /\ \A n \in DOMAIN ejobs : ejobs[n].phase \in EmbeddingJobTerminal
  /\ \A n \in DOMAIN ijobs : ijobs[n].phase \in IndexJobTerminal

\* C37: under fair reconciliation, with every workload eventually reporting
\* success or failure and deleted by the reconciler only, every Embed Task and
\* Index Task eventually is Succeeded or Failed: the retry loop is finite.
C37_TaskTerminates == (~TasksTerminal) ~> TasksTerminal

\* A task without retryPolicy has gone through all its retries and succeeded.
C37_Witness ==
  \E job \in AllTasks :
    /\ job.phase = "Succeeded" /\ job.maxRetries = NoPolicy
    /\ job.retryCount = DefaultMaxRetries

\* The Pipeline is in the middle of a cycle whose pods can start, so that its
\* child tasks become terminal.
CycleUnderWay ==
  /\ ds.exists /\ ~ds.deleting /\ ~ds.secretMissing
  /\ ds.phase \notin {"Ready", "Failed"}

\* C38: under fair reconciliation, with no spec edits and every child task
\* eventually terminal, a Pipeline that is not being deleted eventually is
\* Ready or Failed, also after a child task was found missing or a status
\* update failed.
C38_PipelineSettles == CycleUnderWay ~> ds.phase \in {"Ready", "Failed"}

\* The Pipeline is Ready with an Index Task it had to create a second time.
C38_Witness ==
  /\ ds.phase = "Ready"
  /\ ds.lastIndexJobRef \in DOMAIN ijobs
  /\ ijobs[ds.lastIndexJobRef].recreated

\* The status of the Pipeline.
DocumentSetStatus(d) ==
  <<d.phase, d.message, d.observedGeneration, d.lastUpdateTime,
    d.lastEmbeddingJobRef, d.lastIndexJobRef, d.currentCollection,
    d.totalChunks, d.totalVectors, d.conditions>>

\* A step creates a child task of the Pipeline.
CreatesTask == DOMAIN ejobs' \ DOMAIN ejobs # {} \/ DOMAIN ijobs' \ DOMAIN ijobs # {}

\* An object with its deletion timestamp set keeps its status and gets no
\* child; the only thing that happens to it is the removal of its finalizer.
DeletingIsInert ==
  /\ (ds.exists /\ ds.deleting) =>
       /\ DocumentSetStatus(ds') = DocumentSetStatus(ds)
       /\ ~CreatesTask
       /\ (DocumentSetReconciler_Reconcile /\ ds' # ds)
            => (~ds'.exists /\ ~ds'.finalizer)
  /\ \A n \in DOMAIN ejobs :
       ejobs[n].deleting =>
         /\ n \in DOMAIN ejobs' =>
              EmbeddingJobStatus(ejobs'[n]) = EmbeddingJobStatus(ejobs[n])
         /\ WorkloadsOf("embedding", n)' \subseteq WorkloadsOf("embedding", n)
  /\ \A n \in DOMAIN ijobs :
       ijobs[n].deleting =>
         /\ n \in DOMAIN ijobs' =>
              IndexJobStatus(ijobs'[n]) = IndexJobStatus(ijobs[n])
         /\ WorkloadsOf("index", n)' \subseteq WorkloadsOf("index", n)

\* A child is created only by an object that has its finalizer.
FinalizerBeforeChild ==
  /\ CreatesTask => ds.finalizer
  /\ \A n \in DOMAIN ejobs :
       ~(WorkloadsOf("embedding", n)' \subseteq WorkloadsOf("embedding", n))
         => ejobs[n].finalizer
  /\ \A n \in DOMAIN ijobs :
       ~(WorkloadsOf("index", n)' \subseteq WorkloadsOf("index", n))
         => ijobs[n].finalizer

\* C39: a Pipeline or task whose deletion timestamp is set never creates a
\* child and never changes its status, a reconcile of it only removes the
\* finalizer; and a Pipeline or task creates its first child only after its
\* own finalizer has been added.
C39_DeletingCreatesNothing == [][DeletingIsInert /\ FinalizerBeforeChild]_vars

\* A Pipeline deleted while Pending is gone, its finalizer removed by the
\* reconciler, without ever having created an Embed Task.
C39_Witness ==
  /\ ~ds.exists /\ ds.deleting /\ ds.phase = "Pending"
  /\ ds.lastEmbeddingJobRef = NoRef /\ DOMAIN ejobs = {}

\* C40: for S3 and PVC sources two different maps from key to per-file hash
\* never give the same digest, so a source whose file map differs from the
\* recorded one is reported as changed.
C40_DigestInjectiveOnMaps ==
  (/\ Returned(ds.result) /\ ds.sourceType \in {"s3", "pvc"}
   /\ ds.status.sourceMetadata.hasFileHashes
   /\ ds.result.newMetadata.hasFileHashes
   /\ ds.status.sourceMetadata.fileHashes # ds.result.newMetadata.fileHashes)
    => /\ ds.status.lastSourceHash # ds.result.newHash
       /\ ds.result.changed

====
